---------------------------- MODULE Spec2Model ----------------------------
(***************************************************************************)
(* A model of the rich-text editing core of src/main.js: the styled        *)
(* buffer (TextModel), the selection (SelectionModel), the line layout     *)
(* (TextLayout) and the edit controller (TextControl, TextKeyboard).       *)
(*                                                                         *)
(* A text is a sequence of one-character strings; offsets are 0-based as   *)
(* in the source, so the character at offset i of text t is t[i+1].        *)
(***************************************************************************)
EXTENDS Integers, Sequences, FiniteSets, TLC

(***************************************************************************)
(* Bounds of the model.                                                    *)
(***************************************************************************)
\* longest buffer text explored
MaxLen == 3
\* mutations explored from the initial buffer (the version counter's cap)
MaxVersion == 3

\* the newline character
NL == "\n"
\* the space character
SP == " "

\* the default colour of a run, TextModel.constructor
DefaultColor == "#111"
\* another colour, for applyStyle(.., 'color', false, value)
OtherColor == "#c00"

Min(a, b) == IF a <= b THEN a ELSE b
Max(a, b) == IF a >= b THEN a ELSE b

\* a faulty slice that stops one character early; the buffer's properties are
\* checked to reject a buffer built on it
SliceShort(t, a, b) ==
    LET from == IF a < 0 THEN Max(Len(t) + a, 0) ELSE Min(a, Len(t))
        to == (IF b < 0 THEN Max(Len(t) + b, 0) ELSE Min(b, Len(t))) - 1
    IN  IF to <= from THEN << >> ELSE SubSeq(t, from + 1, to)

\* String.prototype.slice(a, b) on a sequence of characters: a negative index
\* counts from the end, and both are clamped to the text
Slice(t, a, b) ==
    LET from == IF a < 0 THEN Max(Len(t) + a, 0) ELSE Min(a, Len(t))
        to == IF b < 0 THEN Max(Len(t) + b, 0) ELSE Min(b, Len(t))
    IN  IF to <= from THEN << >> ELSE SubSeq(t, from + 1, to)

\* text[i]: the character at offset i, or "undefined" outside the text
CharAt(t, i) == IF 0 <= i /\ i < Len(t) THEN t[i + 1] ELSE "undefined"

(***************************************************************************)
(* TextModel                                                               *)
(***************************************************************************)
DefaultStyle == [bold |-> FALSE, italic |-> FALSE, underline |-> FALSE, color |-> DefaultColor]

\* a run of text t in the style st
MkRun(t, st) == [text |-> t, bold |-> st.bold, italic |-> st.italic,
                 underline |-> st.underline, color |-> st.color]

\* the style fields of a run
StyleOf(r) == [bold |-> r.bold, italic |-> r.italic, underline |-> r.underline, color |-> r.color]

\* this.runs.map(r=>r.text).join("")
RECURSIVE JoinRuns(_)
JoinRuns(rs) == IF rs = << >> THEN << >> ELSE Head(rs).text \o JoinRuns(Tail(rs))

\* total length of the first k runs
RECURSIVE AccLen(_, _)
AccLen(rs, k) == IF k = 0 THEN 0 ELSE AccLen(rs, k - 1) + Len(rs[k].text)

\* _locate(index): {ri, off}, ri 0-based as in the source (-1 when there is no run)
Locate(rs, index) ==
    LET hits == {i \in 1..Len(rs) : index <= AccLen(rs, i)}
    IN  IF hits # {}
        THEN LET i == CHOOSE j \in hits : \A k \in hits : j <= k
             IN  [ri |-> i - 1, off |-> index - AccLen(rs, i - 1)]
        ELSE [ri |-> Len(rs) - 1,
              off |-> IF Len(rs) > 0 THEN Len(rs[Len(rs)].text) ELSE 0]

\* Array.prototype.splice(at, del, ...ins) with 0-based at
Splice(rs, at, del, ins) ==
    LET a == Max(0, Min(at, Len(rs)))
        d == Max(0, Min(del, Len(rs) - a))
    IN  SubSeq(rs, 1, a) \o ins \o SubSeq(rs, a + d + 1, Len(rs))

\* _splitAt(index): the runs after the split and the returned run index
SplitAt(rs, txt, index0) ==
    LET index == Max(0, Min(index0, Len(txt)))
        loc == Locate(rs, index)
    IN  IF loc.ri < 0 \/ loc.ri >= Len(rs) THEN [runs |-> rs, at |-> 0]
        ELSE LET run == rs[loc.ri + 1]
             IN  IF loc.off = 0 THEN [runs |-> rs, at |-> loc.ri]
                 ELSE IF loc.off = Len(run.text) THEN [runs |-> rs, at |-> loc.ri + 1]
                 ELSE LET left == [run EXCEPT !.text = Slice(run.text, 0, loc.off)]
                          right == [run EXCEPT !.text = Slice(run.text, loc.off, Len(run.text))]
                      IN  [runs |-> Splice(rs, loc.ri, 1, <<left, right>>), at |-> loc.ri + 1]

\* the test of _mergeAdjacent: the two runs share bold, italic, underline and color
SameStyle(p, r) ==
    /\ p.bold = r.bold
    /\ p.italic = r.italic
    /\ p.underline = r.underline
    /\ p.color = r.color

\* the loop of _mergeAdjacent over the runs not yet visited
RECURSIVE MergeInto(_, _)
MergeInto(out, rs) ==
    IF rs = << >> THEN out
    ELSE LET r == Head(rs)
         IN  IF out # << >> /\ SameStyle(out[Len(out)], r)
             THEN MergeInto([out EXCEPT ![Len(out)].text = @ \o r.text], Tail(rs))
             ELSE MergeInto(Append(out, r), Tail(rs))

\* a faulty merge that leaves the runs as they are
Unmerged(rs) == rs

\* _mergeAdjacent()
MergeAdjacent(rs) == MergeInto(<< >>, rs)

\* the loop of applyStyle over runs a..b-1 (0-based)
StyledRuns(rs, a, b, prop, toggle, value) ==
    [i \in 1..Len(rs) |->
        IF a <= i - 1 /\ i - 1 < b
        THEN IF toggle THEN [rs[i] EXCEPT ![prop] = ~rs[i][prop]]
             ELSE [rs[i] EXCEPT ![prop] = value]
        ELSE rs[i]]


(***************************************************************************)
(* The measurement collaborator (Paint.measureText, Paint.cutText).  The   *)
(* canvas is outside the repository: a text's width is taken to be the sum *)
(* of its characters' widths, in abstract pixels, and a bold font to widen *)
(* every character by one pixel.                                           *)
(***************************************************************************)
\* the hyphen, TextControl.hyphenChar
HyphenChar == "-"

\* the font ensure() selects for a run: this.font with "italic"/"bold" prefixed
FontOf(r) == [bold |-> r.bold, italic |-> r.italic]

\* this.font of TextLayout, the font of every plain measurement
PlainFont == [bold |-> FALSE, italic |-> FALSE]

\* the canvas' width of one character in a font
CharWidth(c, font) ==
    (IF c \in {SP, NL, HyphenChar} THEN 1 ELSE 2) + (IF font.bold THEN 1 ELSE 0)

\* paint.measureText(t).width with paint.font = font
RECURSIVE TextWidth(_, _)
TextWidth(t, font) ==
    IF t = << >> THEN 0 ELSE CharWidth(Head(t), font) + TextWidth(Tail(t), font)

\* the binary search of cutText and of the style-aware path: the largest k in
\* lo..hi the search settles on, testing the prefix of length mid
RECURSIVE FitSearch(_, _, _, _, _)
FitSearch(t, font, lo, hi, width) ==
    IF lo < hi
    THEN LET mid == (lo + hi + 1) \div 2
         IN  IF TextWidth(Slice(t, 0, mid), font) <= width
             THEN FitSearch(t, font, mid, hi, width)
             ELSE FitSearch(t, font, lo, mid - 1, width)
    ELSE lo

\* cutText(text, width)[0], as the length of the head it returns
CutText(t, font, width) ==
    IF t = << >> THEN 0
    ELSE IF ~(width > 0) THEN 0
    ELSE IF TextWidth(t, font) <= width THEN Len(t)
    ELSE FitSearch(t, font, 0, Len(t), width)

(***************************************************************************)
(* TextLayout.ensure: the line breaking                                    *)
(***************************************************************************)
\* /\s/.test(ch) on the model's characters
IsSpace(c) == c \in {SP, NL}

\* the backward scan for the last whitespace of s: its 0-based index, or -1
LastSpace(s) ==
    LET S == {i \in 0..(Len(s) - 1) : IsSpace(s[i + 1])}
    IN  IF S = {} THEN -1 ELSE CHOOSE i \in S : \A j \in S : j <= i

\* model.text.split("\n"), cur being the paragraph under construction
RECURSIVE SplitNL(_, _)
SplitNL(t, cur) ==
    IF t = << >> THEN <<cur>>
    ELSE IF Head(t) = NL THEN <<cur>> \o SplitNL(Tail(t), << >>)
    ELSE SplitNL(Tail(t), Append(cur, Head(t)))

\* the hyphenation loops: drop trailing characters while f + hy is wider than W
RECURSIVE ShrinkHyphen(_, _, _)
ShrinkHyphen(f, font, W) ==
    IF Len(f) > 1 /\ TextWidth(Append(f, HyphenChar), font) > W
    THEN ShrinkHyphen(Slice(f, 0, Len(f) - 1), font, W)
    ELSE f

\* the rest of an iteration of the plain path, cut being cutText's head length
PlainLineCut(rest, cut, W, o) ==
    LET std(n) == [text |-> Slice(rest, 0, n), rest |-> Slice(rest, n, Len(rest))]
        splitAt == LastSpace(Slice(rest, 0, cut))
    IN  IF cut = 0 THEN std(1)
        ELSE IF o.wordWrap = "word" /\ cut < Len(rest)
        THEN IF splitAt > 0 THEN std(splitAt + 1)
             ELSE IF o.hyphenate /\ cut > 1
             THEN [text |-> Slice(rest, 0, cut), rest |-> rest, hyphen |-> TRUE]
             ELSE std(cut)
        ELSE std(cut)

\* the hyphenated line of the plain path: f is the head shrunk to fit with the
\* hyphen; the line is f + hy and the rest loses f
PlainHyphenated(rest, f) ==
    [text |-> Append(f, HyphenChar), rest |-> Slice(rest, Len(f), Len(rest))]

\* a line of the plain path not yet hyphenated, or hyphenated when it asks
PlainFinish(rest, st, W) ==
    IF "hyphen" \in DOMAIN st
    THEN PlainHyphenated(rest, ShrinkHyphen(st.text, PlainFont, W))
    ELSE st

\* one iteration of the plain path's while loop: the emitted text and the new rest
PlainLine(rest, W, o) ==
    PlainFinish(rest, PlainLineCut(rest, CutText(rest, PlainFont, W), W, o), W)

\* the lines of a paragraph: the line just emitted, then those of the rest
LinesAfter(line, more) ==
    [hangs |-> more.hangs, lines |-> <<line>> \o more.lines, offset |-> more.offset]

\* the plain path's while loop over one non-empty paragraph starting at offset;
\* an iteration that leaves rest as it was repeats for ever
RECURSIVE PlainPara(_, _, _, _)
\* the loop after the iteration that emitted st
PlainParaStep(rest, st, offset, W, o) ==
    LET end == offset + Len(st.text)
        line == [text |-> st.text, start |-> offset, end |-> end]
    IN  IF st.rest = rest
        THEN [hangs |-> TRUE, lines |-> <<line>>, offset |-> end]
        ELSE LinesAfter(line, PlainPara(st.rest, end, W, o))

PlainPara(rest, offset, W, o) ==
    IF rest = << >> THEN [hangs |-> FALSE, lines |-> << >>, offset |-> offset]
    ELSE PlainParaStep(rest, PlainLine(rest, W, o), offset, W, o)

\* the run the style-aware path measures at loc, a _locate result: the run's
\* font and the characters left in it (all of rest when there is no such run
\* or the run is empty)
RunAt(rs, loc, rest) ==
    LET hasRun == loc.ri >= 0 /\ loc.ri < Len(rs)
    IN  IF hasRun
        THEN [font |-> FontOf(rs[loc.ri + 1]),
              remain |-> IF Len(rs[loc.ri + 1].text) > 0
                         THEN Len(rs[loc.ri + 1].text) - loc.off ELSE Len(rest)]
        ELSE [font |-> PlainFont, remain |-> Len(rest)]

\* the style-aware path's inner loop, filling one line run by run; s holds
\* rest, restAbs, remaining, lineText and the font left on the paint
RECURSIVE StyleFill(_, _)
\* the inner loop after take characters of chunk were taken in font
StyleTake(rs, s, chunk, font, take) ==
    IF take > 0
    THEN StyleFill(rs, [rest |-> Slice(s.rest, take, Len(s.rest)),
                        restAbs |-> s.restAbs + take,
                        remaining |-> s.remaining - TextWidth(Slice(chunk, 0, take), font),
                        lineText |-> s.lineText \o Slice(chunk, 0, take),
                        font |-> font])
    ELSE [s EXCEPT !.font = font]

\* the characters taken from chunk, lo being the binary search's result: one
\* at least on an empty line
StyleTaken(s, chunk, lo) ==
    IF lo = 0 /\ Len(s.lineText) = 0 /\ Len(chunk) > 0 THEN 1 ELSE lo

\* an iteration of the inner loop on the chunk of rest inside the run
StyleChunk(rs, s, chunk, font) ==
    StyleTake(rs, s, chunk, font,
              StyleTaken(s, chunk, FitSearch(chunk, font, 0, Len(chunk), s.remaining)))

\* an iteration of the inner loop in the run r, a RunAt result
StyleInRun(rs, s, r) ==
    StyleChunk(rs, s, Slice(s.rest, 0, Min(r.remain, Len(s.rest))), r.font)

StyleFill(rs, s) ==
    IF ~(Len(s.rest) > 0 /\ s.remaining > 0) THEN s
    ELSE StyleInRun(rs, s, RunAt(rs, Locate(rs, s.restAbs), s.rest))

\* the line kept as filled
StyleKeep(s) == [text |-> s.lineText, rest |-> s.rest, restAbs |-> s.restAbs, font |-> s.font]

\* the line cut to kept characters (with an optional suffix), the characters
\* after them carried back to the rest
StyleCarry(s, kept, suffix) ==
    LET carry == Slice(s.lineText, kept, Len(s.lineText))
    IN  [text |-> Slice(s.lineText, 0, kept) \o suffix, rest |-> carry \o s.rest,
         restAbs |-> s.restAbs - Len(carry), font |-> s.font]

\* the end of an iteration of the style-aware while loop, s being the line as
\* the inner loop filled it: the word break, or the hyphenation
StyleBreak(s, W, o) ==
    LET splitAt == LastSpace(s.lineText)
    IN  IF o.wordWrap = "word" /\ Len(s.rest) > 0 /\ Len(s.lineText) > 0
        THEN IF splitAt >= 0 /\ splitAt < Len(s.lineText) - 1
             THEN StyleCarry(s, splitAt + 1, << >>)
             ELSE IF o.hyphenate
             THEN StyleCarry(s, Len(ShrinkHyphen(s.lineText, s.font, W)), <<HyphenChar>>)
             ELSE StyleKeep(s)
        ELSE StyleKeep(s)

\* one iteration of the style-aware path's while loop (wrap enabled): the
\* emitted text and the new rest and restAbs
StyleLine(rs, rest, restAbs, W, o, font0) ==
    StyleBreak(StyleFill(rs, [rest |-> rest, restAbs |-> restAbs, remaining |-> W,
                              lineText |-> << >>, font |-> font0]), W, o)

\* the lines of a paragraph of the style-aware path: the line just emitted,
\* then those of the rest
StyleLinesAfter(line, more) ==
    [hangs |-> more.hangs, lines |-> <<line>> \o more.lines, offset |-> more.offset,
     font |-> more.font]

\* the style-aware path's while loop over one non-empty paragraph; an iteration
\* that leaves rest as it was repeats for ever, W and the runs being the same
RECURSIVE StylePara(_, _, _, _, _, _)
\* the loop after the iteration that emitted st
StyleParaStep(rs, rest, restAbs, st, W, o) ==
    LET line == [text |-> st.text, start |-> restAbs, end |-> restAbs + Len(st.text)]
    IN  IF st.rest = rest
        THEN [hangs |-> TRUE, lines |-> <<line>>, offset |-> line.end, font |-> st.font]
        ELSE IF st.rest = << >>
        THEN [hangs |-> FALSE, lines |-> <<line>>, offset |-> line.end, font |-> st.font]
        ELSE StyleLinesAfter(line, StylePara(rs, st.rest, st.restAbs, W, o, st.font))

StylePara(rs, rest, restAbs, W, o, font0) ==
    IF rest = << >> THEN [hangs |-> FALSE, lines |-> << >>, offset |-> restAbs, font |-> font0]
    ELSE IF o.wrap = FALSE
    THEN [hangs |-> FALSE,
          lines |-> <<[text |-> rest, start |-> restAbs, end |-> restAbs + Len(rest)]>>,
          offset |-> restAbs + Len(rest), font |-> font0]
    ELSE StyleParaStep(rs, rest, restAbs, StyleLine(rs, rest, restAbs, W, o, font0), W, o)

\* the lines of one paragraph that starts at offset
ParaLines(rs, para, offset, W, o, font0) ==
    IF para = << >>
    THEN [hangs |-> FALSE, lines |-> <<[text |-> << >>, start |-> offset, end |-> offset]>>,
          offset |-> offset, font |-> font0]
    ELSE IF o.styleAwareLayout THEN StylePara(rs, para, offset, W, o, font0)
    ELSE IF o.wrap = FALSE
    THEN [hangs |-> FALSE,
          lines |-> <<[text |-> para, start |-> offset, end |-> offset + Len(para)]>>,
          offset |-> offset + Len(para), font |-> font0]
    ELSE PlainPara(para, offset, W, o) @@ [font |-> font0]

\* the loop of ensure() over paragraphs p..last, lines being those pushed so far
RECURSIVE LayoutFrom(_, _, _, _, _, _, _, _)
\* the loop after paragraph p gave r, all being the lines pushed so far
LayoutNext(rs, paras, p, r, all, W, o) ==
    IF r.hangs THEN [hangs |-> TRUE, lines |-> all]
    ELSE IF p < Len(paras)
    THEN LayoutFrom(rs, paras, p + 1, r.offset + 1,
                    [all EXCEPT ![Len(all)].end = @ + 1], W, o, r.font)
    ELSE [hangs |-> FALSE, lines |-> all]

\* paragraph p gave r: its lines are pushed
LayoutPushed(rs, paras, p, lines, r, W, o) ==
    LayoutNext(rs, paras, p, r, lines \o r.lines, W, o)

LayoutFrom(rs, paras, p, offset, lines, W, o, font0) ==
    IF p > Len(paras) THEN [hangs |-> FALSE, lines |-> lines]
    ELSE LayoutPushed(rs, paras, p, lines, ParaLines(rs, paras[p], offset, W, o, font0), W, o)

\* the line table ensure() computes for the text, the runs, the width W and
\* the options o; hangs when the computation never returns
Layout(rs, txt, W, o) == LayoutFrom(rs, SplitNL(txt, << >>), 1, 0, << >>, W, o, PlainFont)

(***************************************************************************)
(* Lineage (src/lineage.js): the tree of the controls.  T maps a control   *)
(* to the parent, the children and the index of its Lineage; children is   *)
(* null until the first add, and null and the empty list behave alike in   *)
(* every method modelled, so both are the empty sequence here.  The value  *)
(* a method returns (true or false) is not kept: no caller modelled reads  *)
(* it.                                                                     *)
(***************************************************************************)
\* the controls of the form
Controls == {"form", "panel", "editor", "label"}
\* this.parent = null
NoControl == "null"

\* new Lineage(control)
NewLineage == [parent |-> NoControl, children |-> << >>, index |-> 0]

\* the controls as constructed, none added to another
Detached == [c \in Controls |-> NewLineage]

\* the list without the control c
RECURSIVE Without(_, _)
Without(list, c) ==
    IF list = << >> THEN << >>
    ELSE IF Head(list) = c THEN Without(Tail(list), c)
    ELSE <<Head(list)>> \o Without(Tail(list), c)

\* c is p or is below p in the tree
RECURSIVE Below(_, _, _)
Below(T, p, c) ==
    \/ c = p
    \/ \E i \in 1..Len(T[p].children) : Below(T, T[p].children[i], c)

\* p.Lineage.add(c) with max = -1, the constructor's value
LineageAdded(T, p, c) ==
    [T EXCEPT ![c].parent = p, ![c].index = Len(T[p].children),
              ![p].children = Append(@, c)]

\* the remaining children of p reindexed, next being the list remove() built
Reindexed(T, next) ==
    [d \in Controls |->
        IF \E i \in 1..Len(next) : next[i] = d
        THEN [T[d] EXCEPT !.index = (CHOOSE i \in 1..Len(next) : next[i] = d) - 1]
        ELSE T[d]]

\* p.Lineage.remove(c)
LineageRemoved(T, p, c) ==
    IF ~(\E i \in 1..Len(T[p].children) : T[p].children[i] = c) THEN T
    ELSE [Reindexed([T EXCEPT ![p].children = Without(@, c)], Without(T[p].children, c))
              EXCEPT ![c].parent = NoControl]

\* destroy() and removeChild() call each other; each gives the tree it
\* leaves, or hangs when its loop never ends
RECURSIVE LineageDestroyLoop(_, _, _)

\* c.Lineage.destroy(): the local variable children keeps the list read at
\* entry
LineageDestroyed(T, c) == LineageDestroyLoop(T, c, T[c].children)

\* removeChild(c) of p after the child's destroy() gave d
ChildRemovedAfter(d, p, c) ==
    IF d.hangs THEN d ELSE [hangs |-> FALSE, t |-> LineageRemoved(d.t, p, c)]

\* p.Lineage.removeChild(c)
LineageChildRemoved(T, p, c) ==
    IF T[c].parent # p THEN [hangs |-> FALSE, t |-> T]
    ELSE ChildRemovedAfter(LineageDestroyed(T, c), p, c)

\* the while loop of destroy() after an iteration gave r: an iteration that
\* leaves the tree as it was repeats for ever, children being the same list
DestroyLoopAfter(T, c, children, r) ==
    IF r.hangs THEN r
    ELSE IF r.t = T THEN [hangs |-> TRUE, t |-> T]
    ELSE LineageDestroyLoop(r.t, c, children)

\* the while loop of destroy(): while(children && children.length > 0)
\* removeChild(children[0])
LineageDestroyLoop(T, c, children) ==
    IF Len(children) = 0 THEN [hangs |-> FALSE, t |-> T]
    ELSE DestroyLoopAfter(T, c, children, LineageChildRemoved(T, c, children[1]))

\* the tree of the editor's form: the editor added to the form
EditorForm == LineageAdded(Detached, "form", "editor")

(***************************************************************************)
(* The state: the fields of TextModel, SelectionModel, TextLayout and      *)
(* TextControl, the host clipboard and the clipboard promises in flight.   *)
(***************************************************************************)
VARIABLES
    runs,               \* TextModel.runs
    text,               \* TextModel.text
    version,            \* TextModel._version
    anchor,             \* SelectionModel.anchor
    head,               \* SelectionModel.head
    cache,              \* TextLayout._cache
    history,            \* TextControl._history
    redo,               \* TextControl._redo
    currentStyle,       \* TextControl.currentStyle
    preferredX,         \* TextControl._preferredX
    scrollY,            \* TextControl._scrollY
    dirty,              \* TextControl._dirty
    composing,          \* TextControl._composing
    compositionText,    \* TextControl._compositionText
    selecting,          \* TextControl._selecting
    dragScrollbarY,     \* TextControl._dragScrollbarY
    dragScrollbarX,     \* TextControl._dragScrollbarX
    lastClickIndex,     \* TextControl._lastClickIndex
    width,              \* Control.width
    height,             \* Control.height
    originX,            \* form.Inside.x + control.x
    originY,            \* form.Inside.y + control.y
    wrap,               \* TextControl.wrap
    wordWrap,           \* TextControl.wordWrap
    hyphenate,          \* TextControl.hyphenate
    styleAwareLayout,   \* TextControl.styleAwareLayout
    lineage,            \* the Lineage of each control: parent, children, index
    clipboard,          \* the host clipboard's text
    pending,            \* the clipboard promises not yet settled
    hung,               \* a call is inside a loop that never ends
    op,                 \* the last operation performed and its arguments
    scen                \* the run of typeText, undo and redo calls in progress

vars == <<runs, text, version, anchor, head, cache, history, redo, currentStyle,
          preferredX, scrollY, dirty, composing, compositionText, selecting,
          dragScrollbarY, dragScrollbarX, lastClickIndex, width, height,
          originX, originY, wrap, wordWrap, hyphenate, styleAwareLayout, lineage,
          clipboard, pending, hung, op, scen>>

\* TextLayout.lineHeight
LineHeight == 16
\* TextLayout.paddingLeft
PaddingLeft == 4
\* TextLayout.paddingTop
PaddingTop == 4
\* the border Factory.create gives a control on each side
BorderSize == 10
\* TextControl._historyLimit, scaled down from 200 so that it is reached
HistoryLimit == 2
\* this._preferredX = null
NullX == -1

\* this._cache = null: a version no buffer has
NullCache == [version |-> -1, width |-> -1, lines |-> << >>]

\* the state as one record, the form the operations below take and return
Cur ==
    [runs |-> runs, text |-> text, version |-> version, anchor |-> anchor, head |-> head,
     cache |-> cache, history |-> history, redo |-> redo, currentStyle |-> currentStyle,
     preferredX |-> preferredX, scrollY |-> scrollY, dirty |-> dirty,
     composing |-> composing, compositionText |-> compositionText,
     selecting |-> selecting, dragScrollbarY |-> dragScrollbarY,
     dragScrollbarX |-> dragScrollbarX, lastClickIndex |-> lastClickIndex, width |-> width,
     height |-> height, originX |-> originX, originY |-> originY, wrap |-> wrap,
     wordWrap |-> wordWrap, hyphenate |-> hyphenate,
     styleAwareLayout |-> styleAwareLayout, lineage |-> lineage, hung |-> hung]

\* the next state is the record S
Becomes(S) ==
    /\ runs' = S.runs /\ text' = S.text /\ version' = S.version
    /\ anchor' = S.anchor /\ head' = S.head /\ cache' = S.cache
    /\ history' = S.history /\ redo' = S.redo /\ currentStyle' = S.currentStyle
    /\ preferredX' = S.preferredX /\ scrollY' = S.scrollY /\ dirty' = S.dirty
    /\ composing' = S.composing /\ compositionText' = S.compositionText
    /\ selecting' = S.selecting /\ dragScrollbarY' = S.dragScrollbarY
    /\ dragScrollbarX' = S.dragScrollbarX /\ lastClickIndex' = S.lastClickIndex
    /\ width' = S.width /\ height' = S.height
    /\ originX' = S.originX /\ originY' = S.originY
    /\ wrap' = S.wrap /\ wordWrap' = S.wordWrap /\ hyphenate' = S.hyphenate
    /\ styleAwareLayout' = S.styleAwareLayout /\ lineage' = S.lineage
    /\ hung' = S.hung

\* the initial state is the record S
Starts(S) ==
    /\ runs = S.runs /\ text = S.text /\ version = S.version
    /\ anchor = S.anchor /\ head = S.head /\ cache = S.cache
    /\ history = S.history /\ redo = S.redo /\ currentStyle = S.currentStyle
    /\ preferredX = S.preferredX /\ scrollY = S.scrollY /\ dirty = S.dirty
    /\ composing = S.composing /\ compositionText = S.compositionText
    /\ selecting = S.selecting /\ dragScrollbarY = S.dragScrollbarY
    /\ dragScrollbarX = S.dragScrollbarX /\ lastClickIndex = S.lastClickIndex
    /\ width = S.width /\ height = S.height
    /\ originX = S.originX /\ originY = S.originY
    /\ wrap = S.wrap /\ wordWrap = S.wordWrap /\ hyphenate = S.hyphenate
    /\ styleAwareLayout = S.styleAwareLayout /\ lineage = S.lineage
    /\ hung = S.hung

\* the state of a freshly constructed TextControl of the given geometry and options
NewControl(w, h, ox, oy, o) ==
    [runs |-> <<MkRun(<< >>, DefaultStyle)>>, text |-> << >>, version |-> 0,
     anchor |-> 0, head |-> 0, cache |-> NullCache, history |-> << >>, redo |-> << >>,
     currentStyle |-> DefaultStyle, preferredX |-> NullX, scrollY |-> 0, dirty |-> TRUE,
     composing |-> FALSE, compositionText |-> << >>,
     selecting |-> FALSE, dragScrollbarY |-> FALSE, dragScrollbarX |-> FALSE,
     lastClickIndex |-> -1,
     width |-> w, height |-> h, originX |-> ox, originY |-> oy, wrap |-> o.wrap,
     wordWrap |-> o.wordWrap, hyphenate |-> o.hyphenate,
     styleAwareLayout |-> o.styleAwareLayout, lineage |-> EditorForm, hung |-> FALSE]

\* the options ensure() reads from the control
Opts(S) == [wrap |-> S.wrap, wordWrap |-> S.wordWrap, hyphenate |-> S.hyphenate,
            styleAwareLayout |-> S.styleAwareLayout]

\* the options the TextControl constructor sets
DefaultOpts == [wrap |-> TRUE, wordWrap |-> "word", hyphenate |-> FALSE,
                styleAwareLayout |-> FALSE]

(***************************************************************************)
(* TextModel's operations, on the state record.  A call made while hung    *)
(* never happens: the call before it has not returned.                     *)
(***************************************************************************)
\* _rebuildText()
RebuildText(S) == [S EXCEPT !.text = JoinRuns(S.runs), !.version = S.version + 1]

\* setText(t)
SetText(S, t) ==
    IF S.hung THEN S
    ELSE RebuildText([S EXCEPT !.runs = <<MkRun(t, DefaultStyle)>>])

\* insertAt after its _splitAt gave sp: the run spliced in, the merge, the rebuild
InsertSplit(S, sp, s, style) ==
    RebuildText([S EXCEPT !.runs = MergeAdjacent(Splice(sp.runs, sp.at, 0, <<MkRun(s, style)>>))])

\* a faulty insertAt that gives the inserted text the default style
InsertPlain(S, index0, s, style) ==
    IF S.hung \/ s = << >> THEN S
    ELSE InsertSplit(S, SplitAt(S.runs, S.text, Max(0, Min(index0, Len(S.text)))), s,
                     DefaultStyle)

\* a faulty insertAt that splits one character too far
InsertShifted(S, index0, s, style) ==
    IF S.hung \/ s = << >> THEN S
    ELSE InsertSplit(S, SplitAt(S.runs, S.text, Max(0, Min(index0, Len(S.text))) + 1), s, style)

\* insertAt(index, s, style)
InsertAt(S, index0, s, style) ==
    IF S.hung \/ s = << >> THEN S
    ELSE InsertSplit(S, SplitAt(S.runs, S.text, Max(0, Min(index0, Len(S.text)))), s, style)

\* the second _splitAt of deleteRange, applyStyle and getRunsInRange, sa being
\* the result of the first: the runs split at both offsets, and the run
\* indices a and b the two calls returned
SplitAgain(sa, txt, end) == [SplitAt(sa.runs, txt, end) EXCEPT !.at = [a |-> sa.at, b |-> @]]

\* the two _splitAt calls at start and at end
SplitBoth(rs, txt, start, end) == SplitAgain(SplitAt(rs, txt, start), txt, end)

\* deleteRange after its _splitAt calls gave sp: runs a..b-1 removed, the
\* merge, the rebuild
DeleteSplit(S, sp) ==
    RebuildText([S EXCEPT !.runs =
        MergeAdjacent(Splice(sp.runs, sp.at.a, sp.at.b - sp.at.a, << >>))])

\* a faulty deleteRange that ignores a range given in reverse order
DeleteForward(S, start0, end0) ==
    IF S.hung \/ start0 >= end0 THEN S
    ELSE LET start == Max(0, Min(start0, Len(S.text)))
             end == Max(0, Min(end0, Len(S.text)))
         IN  IF end <= start THEN S
             ELSE DeleteSplit(S, SplitBoth(S.runs, S.text, start, end))

\* deleteRange(start, end)
DeleteRange(S, start0, end0) ==
    IF S.hung \/ start0 = end0 THEN S
    ELSE LET start == Max(0, Min(Min(start0, end0), Len(S.text)))
             end == Max(0, Min(Max(start0, end0), Len(S.text)))
         IN  IF end <= start THEN S
             ELSE DeleteSplit(S, SplitBoth(S.runs, S.text, start, end))

\* applyStyle after its _splitAt calls gave sp: runs a..b-1 restyled, the
\* merge, the rebuild
ApplySplit(S, sp, prop, toggle, value) ==
    RebuildText([S EXCEPT !.runs =
        MergeAdjacent(StyledRuns(sp.runs, sp.at.a, sp.at.b, prop, toggle, value))])

\* applyStyle(start, end, prop, toggle, value)
ApplyStyle(S, start0, end0, prop, toggle, value) ==
    IF S.hung \/ start0 = end0 THEN S
    ELSE LET start == Max(0, Min(Min(start0, end0), Len(S.text)))
             end == Max(0, Min(Max(start0, end0), Len(S.text)))
         IN  ApplySplit(S, SplitBoth(S.runs, S.text, start, end), prop, toggle, value)

\* getRunsInRange(start, end): the state it leaves (its two _splitAt calls)
GetRunsInRange(S, start0, end0) ==
    IF S.hung THEN S
    ELSE LET start == Max(0, Min(start0, Len(S.text)))
             end == Max(0, Min(end0, Len(S.text)))
         IN  [S EXCEPT !.runs = SplitBoth(S.runs, S.text, start, end).runs]

(***************************************************************************)
(* SelectionModel                                                          *)
(***************************************************************************)
SelStart(S) == Min(S.anchor, S.head)
SelEnd(S) == Max(S.anchor, S.head)
SelEmpty(S) == S.anchor = S.head
CollapseTo(S, pos) == IF S.hung THEN S ELSE [S EXCEPT !.anchor = pos, !.head = pos]
SetRange(S, a, b) == IF S.hung THEN S ELSE [S EXCEPT !.anchor = a, !.head = b]
SetHead(S, pos) == IF S.hung THEN S ELSE [S EXCEPT !.head = pos]

(***************************************************************************)
(* TextLayout on the state record                                          *)
(***************************************************************************)
\* TextLayout.innerWidth
InnerWidth(S) == S.width - BorderSize - BorderSize - PaddingLeft * 2

\* TextControl.innerHeight
InnerHeight(S) == S.height - BorderSize - BorderSize - PaddingTop * 2

\* the width ensure() lays the text out in
AvailWidth(S) == Max(0, InnerWidth(S))

\* a faulty test of ensure() that does not look at the width
CacheHitAnyWidth(S) ==
    /\ S.cache # NullCache
    /\ S.cache.version = S.version

\* the test of ensure(): the cache holds the table of this version and width
CacheHit(S) ==
    /\ S.cache # NullCache
    /\ S.cache.version = S.version
    /\ S.cache.width = AvailWidth(S)

\* ensure() after its line breaking gave lay: the table cached with the
\* version and the width, or the call that never returns
EnsureLaidOut(S, lay) ==
    IF lay.hangs THEN [S EXCEPT !.hung = TRUE]
    ELSE [S EXCEPT !.cache = [version |-> S.version, width |-> AvailWidth(S),
                              lines |-> lay.lines]]

\* ensure(): the state it leaves; its result is the cache of that state
Ensure(S) ==
    IF S.hung \/ CacheHit(S) THEN S
    ELSE EnsureLaidOut(S, Layout(S.runs, S.text, AvailWidth(S), Opts(S)))

\* lineIndexOf(index) on the line table ensure() returned
LineIndexOf(lines, txt, index) ==
    IF Len(lines) = 0 THEN 0
    ELSE LET hit(i) == \/ index < lines[i + 1].start
                       \/ index < lines[i + 1].end
                       \/ index = lines[i + 1].end
             H == {i \in 0..(Len(lines) - 1) : hit(i)}
         IN  IF H = {} THEN Len(lines) - 1
             ELSE LET i == CHOOSE k \in H : \A j \in H : k <= j
                      L == lines[i + 1]
                  IN  IF index < L.start \/ index < L.end THEN i
                      ELSE IF CharAt(txt, L.end - 1) = NL /\ i + 1 < Len(lines) THEN i + 1
                      ELSE i

\* the offset a caret on line L is clamped to: before the line's newline
EndNoNL(L, txt) == IF CharAt(txt, L.end - 1) = NL THEN L.end - 1 ELSE L.end

\* the left edge of the text on the rendering surface, as xForIndex computes it
LeftEdge(S) == S.originX + BorderSize + PaddingLeft

\* xForIndex(index), in a state ensure() has returned in
XForIndex(S, index) ==
    LET lines == S.cache.lines
        L == lines[LineIndexOf(lines, S.text, index) + 1]
        idxClamped == Min(index, EndNoNL(L, S.text))
    IN  LeftEdge(S) + TextWidth(Slice(S.text, L.start, idxClamped), PlainFont)

\* the preferred column set in E, a state ensure() has returned in
PreferredXIn(E) == IF E.hung THEN E ELSE [E EXCEPT !.preferredX = XForIndex(E, E.head)]

\* this._preferredX = this.textLayout.xForIndex(this.selection.head)
SetPreferredX(S) == PreferredXIn(Ensure(S))

(***************************************************************************)
(* TextControl                                                             *)
(***************************************************************************)
\* invalidate()
Invalidate(S) == IF S.hung THEN S ELSE [S EXCEPT !.dirty = TRUE]

\* the maximal vertical scroll: max(0, contentH - max(0, innerHeight))
MaxScrollY(S, lines) == Max(0, Len(lines) * LineHeight - Max(0, InnerHeight(S)))

\* a faulty ensureCaretVisible that scrolls to the caret's line and does not
\* bound the result by the content
ScrollToCaretUnbounded(E) ==
    IF E.hung THEN E
    ELSE LET lines == E.cache.lines
         IN  IF Len(lines) = 0 THEN E
             ELSE LET li == LineIndexOf(lines, E.text, E.head)
                      lineTop == li * LineHeight
                      lineBottom == lineTop + LineHeight
                      viewTop == E.scrollY
                      viewBottom == E.scrollY + Max(0, InnerHeight(E))
                  IN  [E EXCEPT !.scrollY = IF lineTop < viewTop THEN lineTop
                                            ELSE IF lineBottom > viewBottom
                                            THEN lineBottom - Max(0, InnerHeight(E))
                                            ELSE E.scrollY]

\* ensureCaretVisible() after its ensure() left E
ScrollToCaret(E) ==
    IF E.hung THEN E
    ELSE LET lines == E.cache.lines
         IN  IF Len(lines) = 0 THEN E
             ELSE LET li == LineIndexOf(lines, E.text, E.head)
                      lineTop == li * LineHeight
                      lineBottom == lineTop + LineHeight
                      viewTop == E.scrollY
                      viewBottom == E.scrollY + Max(0, InnerHeight(E))
                      y == IF lineTop < viewTop THEN lineTop
                           ELSE IF lineBottom > viewBottom
                           THEN lineBottom - Max(0, InnerHeight(E))
                           ELSE E.scrollY
                  IN  [E EXCEPT !.scrollY = Max(0, Min(y, MaxScrollY(E, lines)))]

\* ensureCaretVisible()
EnsureCaretVisible(S) == ScrollToCaret(Ensure(S))

\* the tail shared by typeText and the caret moves: the preferred column, the
\* caret kept visible (keepCaretVisible is true), invalidate()
AfterCaretChange(S) == Invalidate(EnsureCaretVisible(SetPreferredX(S)))

\* snapshot()
Snapshot(S) == [text |-> S.text, a |-> S.anchor, h |-> S.head]

\* a faulty restore that puts the text back and leaves the selection
RestoreTextOnly(S, state) == Invalidate(SetText(S, state.text))

\* restore(state)
Restore(S, state) ==
    Invalidate([SetText(S, state.text) EXCEPT !.anchor = state.a, !.head = state.h])

\* a faulty push that never drops a snapshot
PushedUnbounded(stack, snap) == Append(stack, snap)

\* the stack pushHistory leaves: the snapshot pushed, the oldest entry shifted
\* out once the stack is longer than the limit
PushedStack(stack, snap) ==
    LET pushed == Append(stack, snap)
    IN  IF Len(pushed) > HistoryLimit THEN Tail(pushed) ELSE pushed

\* pushHistory()
PushHistory(S) ==
    IF S.hung THEN S
    ELSE [S EXCEPT !.history = PushedStack(S.history, Snapshot(S)), !.redo = << >>]

\* the selection deleted and collapsed to its start, when there is one: the
\* head of typeText, Backspace, Delete
SelectionDeleted(S) ==
    IF ~SelEmpty(S) THEN CollapseTo(DeleteRange(S, SelStart(S), SelEnd(S)), SelStart(S))
    ELSE S

\* the caret moved n characters on, after an insertion
CaretAdvanced(S, n) == CollapseTo(S, SelStart(S) + n)

\* typeText after the selection is gone: the insertion at the caret in the
\* current style, the caret after it
Inserted(S, s) == CaretAdvanced(InsertAt(S, SelStart(S), s, S.currentStyle), Len(s))

\* a faulty typeText that takes its snapshot after deleting the selection
TypeTextSnapshotsLate(S, s) ==
    AfterCaretChange(Inserted(PushHistory(SelectionDeleted(S)), s))

\* typeText(s)
TypeText(S, s) == AfterCaretChange(Inserted(SelectionDeleted(PushHistory(S)), s))

\* moveCaretHoriz(dir, extend)
MoveCaretHoriz(S, dir, extend) ==
    LET pos0 == (IF extend THEN S.head ELSE SelEnd(S)) + dir
        pos == Max(0, Min(Len(S.text), pos0))
    IN  AfterCaretChange(IF extend THEN SetHead(S, pos) ELSE CollapseTo(S, pos))

\* the scroll of moveDocumentBoundary to the end, E being the state its
\* ensure() left
ScrolledToEnd(E) ==
    IF E.hung THEN E ELSE [E EXCEPT !.scrollY = Max(0, MaxScrollY(E, E.cache.lines))]

\* moveDocumentBoundary(toStart, extend)
MoveDocumentBoundary(S, toStart, extend) ==
    LET pos == IF toStart THEN 0 ELSE Len(S.text)
        S1 == IF extend THEN SetHead(S, pos) ELSE CollapseTo(S, pos)
    IN  AfterCaretChange(IF toStart THEN [S1 EXCEPT !.scrollY = 0]
                         ELSE ScrolledToEnd(Ensure(S1)))

\* undo()
Undo(S) ==
    IF S.hung \/ Len(S.history) = 0 THEN S
    ELSE LET current == Snapshot(S)
             prev == S.history[Len(S.history)]
         IN  Restore([S EXCEPT !.history = SubSeq(S.history, 1, Len(S.history) - 1),
                               !.redo = Append(S.redo, current)], prev)

\* redo()
Redo(S) ==
    IF S.hung \/ Len(S.redo) = 0 THEN S
    ELSE LET current == Snapshot(S)
             next == S.redo[Len(S.redo)]
         IN  Restore([S EXCEPT !.redo = SubSeq(S.redo, 1, Len(S.redo) - 1),
                               !.history = Append(S.history, current)], next)

\* toggleStyle over the selection, after pushHistory()
StyleToggled(S, prop) ==
    Invalidate(EnsureCaretVisible(ApplyStyle(S, SelStart(S), SelEnd(S), prop, TRUE, TRUE)))

\* a faulty toggleStyle that pushes a snapshot also when only the typing
\* style changes
ToggleStyleSnapshots(S, prop) ==
    IF S.hung THEN S
    ELSE IF ~SelEmpty(S) THEN StyleToggled(PushHistory(S), prop)
    ELSE [PushHistory(S) EXCEPT !.currentStyle[prop] = ~S.currentStyle[prop]]

\* toggleStyle(prop)
ToggleStyle(S, prop) ==
    IF S.hung THEN S
    ELSE IF ~SelEmpty(S) THEN StyleToggled(PushHistory(S), prop)
    ELSE [S EXCEPT !.currentStyle[prop] = ~S.currentStyle[prop]]

\* a faulty text setter that leaves the selection where it was
CaretLeft(S) == S

\* the caret clamped to the text
CaretClamped(S) == CollapseTo(S, Min(S.head, Len(S.text)))

\* the text setter of TextControl
AssignText(S, value) == Invalidate(CaretClamped(SetText(S, value)))

\* the Backspace case after pushHistory()
BackspaceDeleted(S) ==
    IF ~SelEmpty(S) THEN SelectionDeleted(S)
    ELSE IF SelStart(S) > 0
    THEN CollapseTo(DeleteRange(S, SelStart(S) - 1, SelStart(S)), SelStart(S) - 1)
    ELSE S

\* the Backspace case of TextKeyboard.onKeyDown
Backspace(S) == Invalidate(BackspaceDeleted(PushHistory(S)))

\* the Delete case after pushHistory()
DeleteDeleted(S) ==
    IF ~SelEmpty(S) THEN SelectionDeleted(S)
    ELSE IF SelStart(S) < Len(S.text) THEN DeleteRange(S, SelStart(S), SelStart(S) + 1)
    ELSE S

\* the Delete case of TextKeyboard.onKeyDown
DeleteKey(S) == Invalidate(DeleteDeleted(PushHistory(S)))

\* the Ctrl+A case of TextKeyboard.onKeyDown
SelectAll(S) == Invalidate(SetRange(S, 0, Len(S.text)))

\* copySelection(cut) after its await: the cut made on the selection of the
\* moment the clipboard write resolves
CutAfterWrite(S) == Invalidate(CollapseTo(DeleteRange(S, SelStart(S), SelEnd(S)), SelStart(S)))

(***************************************************************************)
(* Inputs                                                                  *)
(***************************************************************************)
\* the texts of at most n characters of the set C
RECURSIVE TextsUpTo(_, _)
TextsUpTo(C, n) ==
    IF n = 0 THEN {<< >>}
    ELSE LET shorter == TextsUpTo(C, n - 1)
         IN  shorter \cup {Append(t, c) : t \in {u \in shorter : Len(u) = n - 1}, c \in C}

\* the record op: the operation's name, its text argument and a flag
Op(name, s, flag) == [name |-> name, s |-> s, flag |-> flag]

\* no run of typeText, undo and redo calls is in progress
NoScen == [phase |-> "none", states |-> << >>, k |-> 0, r |-> 0]

\* the style of each character of the buffer, in order
RECURSIVE CharStyles(_)
CharStyles(rs) ==
    IF rs = << >> THEN << >>
    ELSE [i \in 1..Len(Head(rs).text) |-> StyleOf(Head(rs))] \o CharStyles(Tail(rs))

\* no two adjacent runs share bold, italic, underline and color
NoAdjacentSameStyle(rs) == \A i \in 1..(Len(rs) - 1) : StyleOf(rs[i]) # StyleOf(rs[i + 1])

(***************************************************************************)
(* SpecBuf: the styled buffer under its own operations                     *)
(***************************************************************************)
\* the characters the buffer operations insert
BufChars == {"a", "b"}
\* the offsets passed to the buffer operations: every offset of the text, and
\* one below and one beyond, which are clamped
BufOffsets == (-1)..(MaxLen + 1)
\* the styles passed to insertAt
BufStyles == {DefaultStyle,
              [DefaultStyle EXCEPT !.bold = TRUE],
              [DefaultStyle EXCEPT !.italic = TRUE, !.color = OtherColor]}
\* the (prop, toggle, value) passed to applyStyle
BufStylings == {<<"bold", TRUE, TRUE>>, <<"italic", FALSE, TRUE>>,
                <<"underline", TRUE, TRUE>>, <<"color", FALSE, OtherColor>>}
\* the texts passed to insertAt
BufInserts == {<< >>, <<"b">>, <<"a", "b">>}

\* the width and height of a control whose inner area is w by h
OuterSize(n) == n + BorderSize * 2 + PaddingLeft * 2

InitBuf ==
    /\ Starts(NewControl(OuterSize(0), OuterSize(0), 0, 0, DefaultOpts))
    /\ clipboard = << >>
    /\ pending = << >>
    /\ op = Op("new", << >>, FALSE)
    /\ scen = NoScen

\* what the buffer operations leave alone
BufFrame == UNCHANGED <<clipboard, pending, scen>>

\* setText(t)
BufSetText ==
    \E t \in TextsUpTo(BufChars, MaxLen) :
        /\ Becomes(SetText(Cur, t))
        /\ op' = Op("setText", t, TRUE)
        /\ BufFrame

\* insertAt(index, s, style)
BufInsertAt ==
    \E index \in BufOffsets, s \in BufInserts, style \in BufStyles :
        /\ Len(text) + Len(s) <= MaxLen
        /\ Becomes(InsertAt(Cur, index, s, style))
        /\ op' = Op("insertAt", s, s # << >>)
        /\ BufFrame

\* deleteRange(start, end)
BufDeleteRange ==
    \E a \in BufOffsets, b \in BufOffsets :
        /\ Becomes(DeleteRange(Cur, a, b))
        /\ op' = Op("deleteRange", << >>, DeleteRange(Cur, a, b).version # version)
        /\ BufFrame

\* applyStyle(start, end, prop, toggle, value)
BufApplyStyle ==
    \E a \in BufOffsets, b \in BufOffsets, st \in BufStylings :
        /\ Becomes(ApplyStyle(Cur, a, b, st[1], st[2], st[3]))
        /\ op' = Op("applyStyle", << >>, a # b)
        /\ BufFrame

\* getRunsInRange(start, end)
BufGetRunsInRange ==
    \E a \in BufOffsets, b \in BufOffsets :
        /\ Becomes(GetRunsInRange(Cur, a, b))
        /\ op' = Op("getRunsInRange", << >>, FALSE)
        /\ BufFrame

\* a step of SpecBuf: the version cap is not reached
BufStep == version < MaxVersion

NextBuf ==
    \/ BufStep /\ BufSetText
    \/ BufStep /\ BufInsertAt
    \/ BufStep /\ BufDeleteRange
    \/ BufStep /\ BufApplyStyle
    \/ BufStep /\ BufGetRunsInRange

SpecBuf == InitBuf /\ [][NextBuf]_vars

(***************************************************************************)
(* C1: after any sequence of setText, insertAt, deleteRange, applyStyle    *)
(* and getRunsInRange calls, the run texts concatenated in order are the   *)
(* buffer's flattened text.                                                *)
(***************************************************************************)
C1_RunsSpellText == JoinRuns(runs) = text

\* a buffer of several runs, reached by a mutation that followed a split
C1_Witness ==
    /\ Len(runs) >= 3
    /\ Len(text) = MaxLen
    /\ op.name \in {"applyStyle", "getRunsInRange"}

(***************************************************************************)
(* C2: immediately after a mutation of the buffer by setText, insertAt,    *)
(* deleteRange or applyStyle, no two adjacent runs have the same bold,     *)
(* italic, underline and color.                                            *)
(***************************************************************************)
C2_MergedAfterMutation ==
    (op.name \in {"setText", "insertAt", "deleteRange", "applyStyle"} /\ op.flag)
        => NoAdjacentSameStyle(runs)

\* a mutation has left several runs
C2_Witness ==
    /\ op.name \in {"insertAt", "deleteRange", "applyStyle"}
    /\ op.flag
    /\ Len(runs) >= 2

(***************************************************************************)
(* The edit controller's events: keys, IME commits, clipboard promises     *)
(***************************************************************************)
\* the version counter's cap in SpecEdit and SpecClip: the text setter leaves
\* version 1, three mutations follow
MaxCtlVersion == 4
\* clipboard promises in flight at once
MaxPending == 1

\* the printable keys typed
TypeChars == {"a"}
\* the texts the editor starts with (the text setter, as main.js does)
InitTexts == {<< >>, <<"a", "b">>}
\* the style shortcut pressed: Ctrl+B
StyleKeys == {"bold"}
\* the texts an IME composition commits
ImeTexts == {<< >>, <<"a", "b">>}
\* what other applications have put on the clipboard
ForeignClips == {<<"b">>}
\* the inner width and height of the editor, in pixels: two letters wide,
\* one line high
CtlInnerWidth == 4
CtlInnerHeight == 16

\* the state after n presses of ArrowLeft (dir = -1) or ArrowRight (dir = 1),
\* with Shift held when extend
RECURSIVE Arrows(_, _, _, _)
Arrows(S, dir, n, extend) ==
    IF n = 0 THEN S ELSE Arrows(MoveCaretHoriz(S, dir, extend), dir, n - 1, extend)

\* the selection extended with Shift from the caret to h
ExtendedTo(S, h) ==
    IF h >= S.head THEN Arrows(S, 1, h - S.head, TRUE) ELSE Arrows(S, -1, S.head - h, TRUE)

\* the editor with text t assigned, the caret walked from offset 0 to a, and
\* the selection then extended with Shift to h
Selected(t, a, h) ==
    ExtendedTo(Arrows(AssignText(NewControl(OuterSize(CtlInnerWidth),
                                            OuterSize(CtlInnerHeight), 0, 0, DefaultOpts), t),
                      1, a, FALSE), h)

InitCtl ==
    /\ \E t \in InitTexts : \E a \in 0..Len(t), h \in 0..Len(t) : Starts(Selected(t, a, h))
    /\ clipboard = << >>
    /\ pending = << >>
    /\ op = Op("new", << >>, FALSE)
    /\ scen = NoScen

\* the length of the text typeText(s) would leave
LenAfterTyping(s) == Len(text) - (SelEnd(Cur) - SelStart(Cur)) + Len(s)

\* a printable key: typeText(key)
KeyChar ==
    \E c \in TypeChars :
        /\ LenAfterTyping(<<c>>) <= MaxLen
        /\ Becomes(TypeText(Cur, <<c>>))
        /\ op' = Op("typeText", <<c>>, ~SelEmpty(Cur))
        /\ UNCHANGED <<clipboard, pending>>

\* Enter: typeText("\n")
KeyEnter ==
    /\ LenAfterTyping(<<NL>>) <= MaxLen
    /\ Becomes(TypeText(Cur, <<NL>>))
    /\ op' = Op("typeText", <<NL>>, ~SelEmpty(Cur))
    /\ UNCHANGED <<clipboard, pending>>

KeyBackspace ==
    /\ Becomes(Backspace(Cur))
    /\ op' = Op("backspace", << >>, ~SelEmpty(Cur))
    /\ UNCHANGED <<clipboard, pending>>

KeyDelete ==
    /\ Becomes(DeleteKey(Cur))
    /\ op' = Op("delete", << >>, ~SelEmpty(Cur))
    /\ UNCHANGED <<clipboard, pending>>

\* ArrowLeft, ArrowRight, with or without Shift
KeyArrowHoriz ==
    \E dir \in {-1, 1}, shift \in BOOLEAN :
        /\ Becomes(MoveCaretHoriz(Cur, dir, shift))
        /\ op' = Op("moveCaretHoriz", << >>, shift)
        /\ UNCHANGED <<clipboard, pending>>

\* Ctrl+Home, Ctrl+End, with or without Shift
KeyDocumentBoundary ==
    \E toStart \in BOOLEAN, shift \in BOOLEAN :
        /\ Becomes(MoveDocumentBoundary(Cur, toStart, shift))
        /\ op' = Op("moveDocumentBoundary", << >>, shift)
        /\ UNCHANGED <<clipboard, pending>>

\* Ctrl+A
KeySelectAll ==
    /\ Becomes(SelectAll(Cur))
    /\ op' = Op("selectAll", << >>, FALSE)
    /\ UNCHANGED <<clipboard, pending>>

\* Ctrl+Z
KeyUndo ==
    /\ Becomes(Undo(Cur))
    /\ op' = Op("undo", << >>, Len(history) > 0)
    /\ UNCHANGED <<clipboard, pending>>

\* Ctrl+Y
KeyRedo ==
    /\ Becomes(Redo(Cur))
    /\ op' = Op("redo", << >>, Len(redo) > 0)
    /\ UNCHANGED <<clipboard, pending>>

\* Ctrl+B
KeyToggleStyle ==
    \E prop \in StyleKeys :
        /\ Becomes(ToggleStyle(Cur, prop))
        /\ op' = Op("toggleStyle", <<prop>>, ~SelEmpty(Cur))
        /\ UNCHANGED <<clipboard, pending>>

\* the record op of a step that resumes a clipboard call after its await:
\* from is the text and selection of when the call was made
OpFrom(name, s, flag, from) == [name |-> name, s |-> s, flag |-> flag, from |-> from]

\* Ctrl+C, Ctrl+X: copySelection(cut) up to its await of clipboard.writeText
KeyCopyCut ==
    \E cut \in BOOLEAN :
        /\ Len(pending) < MaxPending
        /\ pending' = IF SelEmpty(Cur) THEN pending
                      ELSE Append(pending, [kind |-> "write", cut |-> cut,
                                            txt |-> Slice(text, SelStart(Cur), SelEnd(Cur)),
                                            from |-> Snapshot(Cur)])
        /\ op' = Op(IF cut THEN "cutRequest" ELSE "copyRequest", << >>, ~SelEmpty(Cur))
        /\ Becomes(Cur)
        /\ UNCHANGED clipboard

\* Ctrl+V: pasteClipboard() up to its await of clipboard.readText
KeyPaste ==
    /\ Len(pending) < MaxPending
    /\ pending' = Append(pending, [kind |-> "read", cut |-> FALSE, txt |-> << >>,
                                   from |-> Snapshot(Cur)])
    /\ op' = Op("pasteRequest", << >>, FALSE)
    /\ Becomes(Cur)
    /\ UNCHANGED clipboard

\* the promises in flight without the i-th
Settled(i) == SubSeq(pending, 1, i - 1) \o SubSeq(pending, i + 1, Len(pending))

\* clipboard.writeText resolves: copySelection resumes after its await
WriteResolves ==
    \E i \in 1..Len(pending) :
        /\ pending[i].kind = "write"
        /\ clipboard' = pending[i].txt
        /\ pending' = Settled(i)
        /\ Becomes(IF pending[i].cut THEN CutAfterWrite(Cur) ELSE Cur)
        /\ op' = OpFrom(IF pending[i].cut THEN "cut" ELSE "copy", pending[i].txt,
                        ~SelEmpty(Cur), pending[i].from)

\* a faulty resumption of pasteClipboard that types over the selection of when
\* paste was invoked
ReadResolvesStale ==
    \E i \in 1..Len(pending), t \in {clipboard} \cup ForeignClips :
        /\ pending[i].kind = "read"
        /\ LenAfterTyping(t) <= MaxLen
        /\ pending' = Settled(i)
        /\ Becomes(TypeText(SetRange(Cur, Min(pending[i].from.a, Len(text)),
                                     Min(pending[i].from.h, Len(text))), t))
        /\ op' = OpFrom("typeText", t, ~SelEmpty(Cur), pending[i].from)
        /\ UNCHANGED clipboard

\* clipboard.readText resolves with the clipboard's text: typeText(t)
ReadResolves ==
    \E i \in 1..Len(pending), t \in {clipboard} \cup ForeignClips :
        /\ pending[i].kind = "read"
        /\ LenAfterTyping(t) <= MaxLen
        /\ pending' = Settled(i)
        /\ Becomes(TypeText(Cur, t))
        /\ op' = OpFrom("typeText", t, ~SelEmpty(Cur), pending[i].from)
        /\ UNCHANGED clipboard

\* a faulty catch that makes the cut though the clipboard write was rejected
ClipboardRejectsCutMade ==
    \E i \in 1..Len(pending) :
        /\ pending' = Settled(i)
        /\ Becomes(IF pending[i].kind = "write" /\ pending[i].cut
                   THEN CutAfterWrite(Cur) ELSE Cur)
        /\ op' = Op("clipboardRejected", << >>, pending[i].kind = "write")
        /\ UNCHANGED clipboard

\* clipboard.writeText or readText rejects: the catch swallows the error
ClipboardRejects ==
    \E i \in 1..Len(pending) :
        /\ pending' = Settled(i)
        /\ Becomes(Cur)
        /\ op' = Op("clipboardRejected", << >>, pending[i].kind = "write")
        /\ UNCHANGED clipboard

\* the last operation, when it is an onCompositionEnd: ime records what the
\* event met (composing or not, the staged text, whether it gave a text)
OpIme(name, s, flag, ime) == [name |-> name, s |-> s, flag |-> flag, ime |-> ime]

\* onCompositionStart(data)
CompositionStart ==
    /\ Becomes([Cur EXCEPT !.composing = TRUE, !.compositionText = << >>])
    /\ op' = Op("compositionStart", << >>, FALSE)
    /\ UNCHANGED <<clipboard, pending>>

\* onCompositionUpdate(data): data || "" is staged
CompositionUpdate ==
    \E data \in ImeTexts :
        /\ Becomes([Cur EXCEPT !.compositionText = data])
        /\ op' = Op("compositionUpdate", data, FALSE)
        /\ UNCHANGED <<clipboard, pending>>

\* the end of onCompositionEnd, once typeText has returned
CompositionEnded(S) ==
    IF S.hung THEN S ELSE [S EXCEPT !.composing = FALSE, !.compositionText = << >>]

\* a faulty onCompositionEnd that leaves the controller composing
CompositionLeftOpen(S, final) == IF final # << >> THEN TypeText(S, final) ELSE S

\* onCompositionEnd with the final text: typed when it is not empty
CompositionCommitted(S, final) ==
    CompositionEnded(IF final # << >> THEN TypeText(S, final) ELSE S)

\* onCompositionEnd(data): the final text is data when the event gives one
\* (given), the staged text otherwise
CompositionEnd ==
    \E given \in BOOLEAN, data \in ImeTexts :
        LET final == IF given THEN data ELSE compositionText
        IN  /\ LenAfterTyping(final) <= MaxLen
            /\ Becomes(CompositionCommitted(Cur, final))
            /\ op' = OpIme(IF final # << >> THEN "typeText" ELSE "compositionEnd", final,
                           ~SelEmpty(Cur),
                           [composing |-> composing, staged |-> compositionText,
                            given |-> given])
            /\ UNCHANGED <<clipboard, pending>>

\* a step of the controller: no call is stuck in a loop, the version cap is
\* not reached
CtlStep == ~hung /\ version < MaxCtlVersion /\ UNCHANGED scen

(***************************************************************************)
(* SpecEdit: the edit controller under the keyboard: typing, IME commits,  *)
(* deletion keys, style shortcuts, select-all, undo and redo               *)
(***************************************************************************)
NextEdit ==
    \/ CtlStep /\ KeyChar
    \/ CtlStep /\ KeyEnter
    \/ CtlStep /\ CompositionStart
    \/ CtlStep /\ CompositionUpdate
    \/ CtlStep /\ CompositionEnd
    \/ CtlStep /\ KeyBackspace
    \/ CtlStep /\ KeyDelete
    \/ CtlStep /\ KeySelectAll
    \/ CtlStep /\ KeyUndo
    \/ CtlStep /\ KeyRedo
    \/ CtlStep /\ KeyToggleStyle

SpecEdit == InitCtl /\ [][NextEdit]_vars

(***************************************************************************)
(* SpecClip: the edit controller under the clipboard shortcuts, whose      *)
(* promises settle between other key events                                *)
(***************************************************************************)
NextClip ==
    \/ CtlStep /\ KeyChar
    \/ CtlStep /\ KeyBackspace
    \/ CtlStep /\ KeySelectAll
    \/ CtlStep /\ KeyUndo
    \/ CtlStep /\ KeyRedo
    \/ CtlStep /\ KeyCopyCut
    \/ CtlStep /\ KeyPaste
    \/ CtlStep /\ WriteResolves
    \/ CtlStep /\ ReadResolves
    \/ CtlStep /\ ClipboardRejects

SpecClip == InitCtl /\ [][NextClip]_vars

(***************************************************************************)
(* SpecUndo: runs of typeText calls, then undo() calls, then redo() calls. *)
(* scen follows the run in progress: states[1] is the text and selection   *)
(* before its first typeText and states[i+1] those after its i-th, k the   *)
(* undo() calls made since and r the redo() calls made after them.  A      *)
(* typeText after an undo or redo starts a new run; an undo or redo beyond *)
(* the run (k = n, r = k) ends it, and so does any other key.              *)
(***************************************************************************)
\* the version counter's cap in SpecUndo: the text setter leaves version 1,
\* three edits, as many undo() calls and as many redo() calls follow
MaxUndoVersion == 9

ScenStep ==
    LET was == [text |-> text, a |-> anchor, h |-> head]
        now == [text |-> text', a |-> anchor', h |-> head']
        n == Len(scen.states) - 1
    IN  scen' =
            IF op'.name = "typeText"
            THEN IF scen.phase = "typing" THEN [scen EXCEPT !.states = Append(@, now)]
                 ELSE [phase |-> "typing", states |-> <<was, now>>, k |-> 0, r |-> 0]
            ELSE IF op'.name = "undo" /\ scen.phase \in {"typing", "undoing"} /\ scen.k < n
            THEN [scen EXCEPT !.phase = "undoing", !.k = @ + 1]
            ELSE IF op'.name = "redo" /\ scen.phase \in {"undoing", "redoing"}
                    /\ scen.r < scen.k
            THEN [scen EXCEPT !.phase = "redoing", !.r = @ + 1]
            ELSE NoScen

\* a step of SpecUndo: no call is stuck in a loop, the version cap is not reached
UndoStep == ~hung /\ version < MaxUndoVersion

NextUndo ==
    \/ UndoStep /\ KeyChar /\ ScenStep
    \/ UndoStep /\ KeyEnter /\ ScenStep
    \/ UndoStep /\ KeySelectAll /\ ScenStep
    \/ UndoStep /\ KeyUndo /\ ScenStep
    \/ UndoStep /\ KeyRedo /\ ScenStep

SpecUndo == InitCtl /\ [][NextUndo]_vars

(***************************************************************************)
(* SpecLayout: ensure() called between mutations of the buffer and width   *)
(* changes, for every combination of the layout options                    *)
(***************************************************************************)
\* the version counter's cap in SpecLayout
MaxLayVersion == 2
\* the version up to which SpecLayout assigns a text: one assignment, the
\* mutations after it are style changes
MaxLayAssigned == 1
\* the characters of the texts laid out
LayChars == {"a", SP, NL}
\* the inner widths laid out in: no pixel, one letter, two letters
LayWidths == {0, 3, 4}
\* the options of the layout
LayOpts == [wrap : BOOLEAN, wordWrap : {"word", "char"}, hyphenate : BOOLEAN,
            styleAwareLayout : BOOLEAN]

InitLayout ==
    /\ \E o \in LayOpts, w \in LayWidths :
           Starts(NewControl(OuterSize(w), OuterSize(CtlInnerHeight), 0, 0, o))
    /\ clipboard = << >>
    /\ pending = << >>
    /\ op = Op("new", << >>, FALSE)
    /\ scen = NoScen

\* what the layout's events leave alone
LayFrame == UNCHANGED <<clipboard, pending, scen>>

\* the text setter
LaySetText ==
    \E t \in TextsUpTo(LayChars, MaxLen) :
        /\ ~hung /\ version < MaxLayAssigned
        /\ Becomes(AssignText(Cur, t))
        /\ op' = Op("setText", t, TRUE)
        /\ LayFrame

\* applyStyle(a, b, 'bold'): a bold run, wider in the style-aware measurement
LayApplyStyle ==
    \E a \in 0..MaxLen, b \in 0..MaxLen :
        /\ ~hung /\ version < MaxLayVersion
        /\ a < b /\ b <= Len(text)
        /\ Becomes(ApplyStyle(Cur, a, b, "bold", TRUE, TRUE))
        /\ op' = Op("applyStyle", << >>, TRUE)
        /\ LayFrame

\* the control is resized
LayResize ==
    \E w \in LayWidths :
        /\ ~hung
        /\ OuterSize(w) # width
        /\ Becomes([Cur EXCEPT !.width = OuterSize(w)])
        /\ op' = Op("resize", << >>, TRUE)
        /\ LayFrame

\* textLayout.ensure(); the flag tells a call that found the cache valid
LayEnsure ==
    /\ ~hung
    /\ Becomes(Ensure(Cur))
    /\ op' = Op("ensure", << >>, CacheHit(Cur))
    /\ LayFrame

NextLayout ==
    \/ LaySetText
    \/ LayApplyStyle
    \/ LayResize
    \/ LayEnsure

SpecLayout == InitLayout /\ [][NextLayout]_vars

(***************************************************************************)
(* C3: typeText(s) with the selection [a, b) leaves the text               *)
(* old[0..a) + s + old[b..), gives each inserted character the current     *)
(* typing style, collapses the selection to a + |s|, and pushes one        *)
(* history snapshot, that of the state before the call.                    *)
(***************************************************************************)
C3_TypeTextReplacesSelection ==
    [][op'.name = "typeText" =>
        LET a == Min(anchor, head)
            b == Max(anchor, head)
            s == op'.s
            before == [text |-> text, a |-> anchor, h |-> head]
            kept == Len(history') - 1
        IN  /\ text' = SubSeq(text, 1, a) \o s \o SubSeq(text, b + 1, Len(text))
            /\ \A i \in 1..Len(s) : CharStyles(runs')[a + i] = currentStyle
            /\ anchor' = a + Len(s)
            /\ head' = a + Len(s)
            /\ kept >= 0
            /\ history'[kept + 1] = before
            /\ SubSeq(history', 1, kept) = SubSeq(history, Len(history) - kept + 1, Len(history))
            /\ kept \in {Len(history), HistoryLimit - 1}
    ]_vars

\* two characters committed over a selection while the typing style is bold
\* and the history is full
C3_Witness ==
    /\ op.name = "typeText"
    /\ op.flag
    /\ Len(op.s) = 2
    /\ currentStyle.bold
    /\ Len(history) = HistoryLimit

(***************************************************************************)
(* C4: after n typeText edits, k <= n undo() calls followed by k redo()    *)
(* calls restore the text, anchor and head that held after the n-th edit,  *)
(* and each undo() restores the text, anchor and head that held just       *)
(* before the most recent edit not yet undone.                             *)
(***************************************************************************)
\* the text and selection now
NowState == [text |-> text, a |-> anchor, h |-> head]
\* the typeText calls of the run in progress
ScenN == Len(scen.states) - 1
\* the undo() calls of the run that found a snapshot of the run to restore
ScenKept == Min(ScenN, HistoryLimit)

\* the claim as stated: every one of the k undo() calls steps one edit back
C4_UndoRedoRoundTrip ==
    /\ scen.phase = "undoing" => NowState = scen.states[ScenN - scen.k + 1]
    /\ (scen.phase = "redoing" /\ scen.r = scen.k) => NowState = scen.states[ScenN + 1]

\* C4 as the code has it: the undo stack keeps the last HistoryLimit
\* snapshots, so the first min(n, HistoryLimit) undo() calls step one edit
\* back each, the undo() calls beyond them change nothing, and the k redo()
\* calls restore the state after the n-th edit
C4_UndoRedoWithinLimit ==
    /\ scen.phase = "undoing" =>
           NowState = scen.states[ScenN - Min(scen.k, ScenKept) + 1]
    /\ (scen.phase = "redoing" /\ scen.r = scen.k) => NowState = scen.states[ScenN + 1]

\* more edits than the history keeps, all undone and all redone
C4_Witness ==
    /\ scen.phase = "redoing"
    /\ ScenN = HistoryLimit + 1
    /\ scen.k = ScenN
    /\ scen.r = scen.k

(***************************************************************************)
(* C5: every controller action that changes the buffer's content           *)
(* (typeText, Enter, Backspace, Delete, cut, paste, toggleStyle over a     *)
(* selection) pushes a snapshot of the state before the action, so that    *)
(* undo() immediately after the action restores the text before it.        *)
(***************************************************************************)
\* the step is one of the controller's edits and has changed the buffer
EditDone ==
    /\ \/ op'.name \in {"typeText", "backspace", "delete", "cut"}
       \/ op'.name = "toggleStyle" /\ op'.flag
    /\ version' # version

C5_EditsPushSnapshot ==
    [][EditDone =>
        /\ Len(history') >= 1
        /\ history'[Len(history')] = [text |-> text, a |-> anchor, h |-> head]
        /\ Undo(Cur').text = text
    ]_vars

(***************************************************************************)
(* C6: any new edit (typing, a deletion key, cut, paste, a style toggle    *)
(* over a selection) empties the redo stack: redo() after it changes       *)
(* nothing.                                                                *)
(***************************************************************************)
C6_EditClearsRedo == [][EditDone => Redo(Cur') = Cur']_vars

(***************************************************************************)
(* C7: the undo stack never holds more snapshots than the history limit,   *)
(* and a push onto a full stack drops the oldest snapshot.                 *)
(***************************************************************************)
\* the step is a call of pushHistory(): every typeText, Backspace and Delete,
\* and toggleStyle over a selection
PushDone ==
    \/ op'.name \in {"typeText", "backspace", "delete"}
    \/ op'.name = "toggleStyle" /\ op'.flag

C7_HistoryBoundedOldestDropped ==
    [][/\ Len(history') <= HistoryLimit
       /\ (PushDone /\ Len(history) = HistoryLimit) =>
              history' = Tail(history) \o <<[text |-> text, a |-> anchor, h |-> head]>>
    ]_vars

\* three characters typed one by one: the stack holds the states before the
\* third and the second, the state before the first was dropped
C7_Witness ==
    /\ op.name = "typeText"
    /\ text = <<"a", "a", "a">>
    /\ history = <<[text |-> <<"a">>, a |-> 1, h |-> 1],
                   [text |-> <<"a", "a">>, a |-> 2, h |-> 2]>>

(***************************************************************************)
(* C8: ensure() called after a mutation of the buffer or a change of the   *)
(* width returns a line table computed from the current text and width and *)
(* stamped with the current version and width; called again with neither   *)
(* changed it returns the cached table, which it does not recompute.       *)
(***************************************************************************)
\* the width ensure() lays out in, from the control's geometry
WidthNow == Max(0, width - BorderSize * 2 - PaddingLeft * 2)

\* the options of the control
OptsNow == [wrap |-> wrap, wordWrap |-> wordWrap, hyphenate |-> hyphenate,
            styleAwareLayout |-> styleAwareLayout]

\* the cache holds a table stamped with the version and the width of now
StampedNow == cache # NullCache /\ cache.version = version /\ cache.width = WidthNow

C8_EnsureFreshThenCached ==
    [][(op'.name = "ensure" /\ ~hung') =>
        /\ cache' # NullCache
        /\ cache'.version = version
        /\ cache'.width = WidthNow
        /\ cache'.lines = Layout(runs, text, WidthNow, OptsNow).lines
        /\ StampedNow => cache' = cache
    ]_vars

\* ensure() has answered from its cache, and the table has several lines: a
\* text wrapped in the width
C8_Witness ==
    /\ op.name = "ensure"
    /\ op.flag
    /\ ~hung
    /\ version = MaxLayVersion
    /\ Len(cache.lines) >= 2
    /\ wrap

(***************************************************************************)
(* C9: for every text, width and option combination the line table of     *)
(* ensure() is non-empty and partitions the text: the first line starts at *)
(* 0, each line starts where the previous one ends, the last line ends at  *)
(* the text's length, and each line's text is the buffer text between its  *)
(* start and its end, less the newline that ends it.                       *)
(***************************************************************************)
\* the buffer text between the start and the end of line L, less its newline
LineSpan(L) ==
    LET to == IF L.end > L.start /\ CharAt(text, L.end - 1) = NL THEN L.end - 1 ELSE L.end
    IN  SubSeq(text, L.start + 1, to)

\* the table partitions the text
Partitions(lines) ==
    /\ Len(lines) >= 1
    /\ lines[1].start = 0
    /\ \A i \in 1..(Len(lines) - 1) : lines[i + 1].start = lines[i].end
    /\ lines[Len(lines)].end = Len(text)
    /\ \A i \in 1..Len(lines) : lines[i].text = LineSpan(lines[i])

C9_TablePartitionsText == (op.name = "ensure" /\ ~hung) => Partitions(cache.lines)

(***************************************************************************)
(* C10: ensure() terminates for every text, width (zero included) and      *)
(* option combination, and each line it emits for a non-empty paragraph    *)
(* consumes at least one character.                                        *)
(***************************************************************************)
\* the lines with no text are as many as the empty paragraphs of the text
EmptyLinesAreEmptyParagraphs(lines) ==
    LET paras == SplitNL(text, << >>)
    IN  Cardinality({i \in 1..Len(lines) : lines[i].text = << >>})
            = Cardinality({p \in 1..Len(paras) : paras[p] = << >>})

C10_EnsureTerminates ==
    /\ ~hung
    /\ op.name = "ensure" => EmptyLinesAreEmptyParagraphs(cache.lines)

(***************************************************************************)
(* C11: getRunsInRange(a, b) leaves the buffer as it was, for every a and  *)
(* b: the same runs (their number, texts and styles), the same text and    *)
(* the same version after the call as before it.                           *)
(***************************************************************************)
C11_GetRunsInRangeReadsOnly ==
    [][op'.name = "getRunsInRange" =>
        /\ runs' = runs
        /\ text' = text
        /\ version' = version
    ]_vars

(***************************************************************************)
(* SpecCall: one call of a buffer operation observed with its arguments,   *)
(* on every buffer a few operations build.  The buffers are those of       *)
(* SpecBuf up to MaxCallSetup mutations (with getRunsInRange reads in      *)
(* between); the observed call is the last step of a behaviour, and op     *)
(* then holds its arguments in the field args.                             *)
(***************************************************************************)
\* the mutations that build the buffer the observed call is made on
MaxCallSetup == 2

\* the record op of a call observed with its arguments
OpArgs(name, s, flag, args) == [name |-> name, s |-> s, flag |-> flag, args |-> args]

\* the runs getRunsInRange(start, end) returns: runs a..b-1 after its two
\* _splitAt calls
RunsInRange(S, start0, end0) ==
    LET start == Max(0, Min(start0, Len(S.text)))
        end == Max(0, Min(end0, Len(S.text)))
        sp == SplitBoth(S.runs, S.text, start, end)
    IN  SubSeq(sp.runs, sp.at.a + 1, sp.at.b)

\* the last step was a call observed with its arguments
Watched == "args" \in DOMAIN op

\* a step that builds the buffer
CallSetup == ~Watched /\ version < MaxCallSetup

\* insertAt(index, s, style), observed
CallInsertAt ==
    \E index \in BufOffsets, s \in BufInserts, style \in BufStyles :
        /\ ~Watched
        /\ Len(text) + Len(s) <= MaxLen
        /\ Becomes(InsertAt(Cur, index, s, style))
        /\ op' = OpArgs("insertAt", s, s # << >>, [index |-> index, style |-> style])
        /\ BufFrame

\* deleteRange(a, b), observed
CallDeleteRange ==
    \E a \in BufOffsets, b \in BufOffsets :
        /\ ~Watched
        /\ Becomes(DeleteRange(Cur, a, b))
        /\ op' = OpArgs("deleteRange", << >>, a # b, [a |-> a, b |-> b])
        /\ BufFrame

\* the (prop, toggle, value) passed to the observed applyStyle: those of
\* SpecBuf, and bold set and italic cleared
CallStylings == BufStylings \cup {<<"bold", FALSE, TRUE>>, <<"italic", FALSE, FALSE>>}

\* applyStyle(a, b, prop, toggle, value), observed
CallApplyStyle ==
    \E a \in BufOffsets, b \in BufOffsets, st \in CallStylings :
        /\ ~Watched
        /\ Becomes(ApplyStyle(Cur, a, b, st[1], st[2], st[3]))
        /\ op' = OpArgs("applyStyle", << >>, a # b,
                        [a |-> a, b |-> b, prop |-> st[1], toggle |-> st[2], value |-> st[3]])
        /\ BufFrame

NextCall ==
    \/ CallSetup /\ BufSetText
    \/ CallSetup /\ BufInsertAt
    \/ CallSetup /\ BufDeleteRange
    \/ CallSetup /\ BufApplyStyle
    \/ CallSetup /\ BufGetRunsInRange
    \/ CallInsertAt
    \/ CallDeleteRange
    \/ CallApplyStyle

SpecCall == InitBuf /\ [][NextCall]_vars

(***************************************************************************)
(* C12: deleteRange(0, length) on a non-empty buffer leaves exactly one    *)
(* run, and that run's text is empty.                                      *)
(***************************************************************************)
C12_DeleteAllLeavesEmptyRun ==
    [][(/\ op'.name = "deleteRange"
        /\ "args" \in DOMAIN op'
        /\ text # << >>
        /\ op'.args.a = 0
        /\ op'.args.b = Len(text)) =>
            /\ Len(runs') = 1
            /\ runs'[1].text = << >>
    ]_vars

(***************************************************************************)
(* C13: insertAt(offset, t, style) with a non-empty t leaves the text      *)
(* old[0..c) + t + old[c..), c being the offset clamped to [0, length];    *)
(* the inserted characters carry style and every character that was there  *)
(* keeps its style.                                                        *)
(***************************************************************************)
\* n copies of x
Repeat(x, n) == [i \in 1..n |-> x]

C13_InsertAtSplices ==
    [][(/\ op'.name = "insertAt"
        /\ "args" \in DOMAIN op'
        /\ op'.s # << >>) =>
            LET c == Max(0, Min(op'.args.index, Len(text)))
                t == op'.s
                was == CharStyles(runs)
            IN  /\ text' = SubSeq(text, 1, c) \o t \o SubSeq(text, c + 1, Len(text))
                /\ CharStyles(runs') =
                       SubSeq(was, 1, c) \o Repeat(op'.args.style, Len(t))
                           \o SubSeq(was, c + 1, Len(was))
    ]_vars

\* a character inserted in a style of its own inside a run, which is split
\* around it
C13_Witness ==
    /\ op.name = "insertAt"
    /\ "args" \in DOMAIN op
    /\ Len(op.s) = 1
    /\ op.args.index = 1
    /\ op.args.style.bold
    /\ Len(runs) = 3
    /\ Len(runs[1].text) = 1
    /\ Len(runs[3].text) = 1

(***************************************************************************)
(* C14: deleteRange(a, b) removes exactly the characters at the offsets    *)
(* [min(a,b), max(a,b)) clamped to [0, length] and keeps every other       *)
(* character, in order and with its style; deleteRange(a, b) and           *)
(* deleteRange(b, a) leave the same buffer.                                *)
(***************************************************************************)
C14_DeleteRangeRemovesRange ==
    [][(op'.name = "deleteRange" /\ "args" \in DOMAIN op') =>
        LET a == op'.args.a
            b == op'.args.b
            lo == Max(0, Min(Min(a, b), Len(text)))
            hi == Max(0, Min(Max(a, b), Len(text)))
            was == CharStyles(runs)
            swapped == DeleteRange(Cur, b, a)
        IN  /\ text' = SubSeq(text, 1, lo) \o SubSeq(text, hi + 1, Len(text))
            /\ CharStyles(runs') = SubSeq(was, 1, lo) \o SubSeq(was, hi + 1, Len(was))
            /\ swapped.runs = runs'
            /\ swapped.text = text'
            /\ swapped.version = version'
    ]_vars

\* a range given in reverse order, taken out of the middle of a text of three
\* characters, which leaves two runs
C14_Witness ==
    /\ op.name = "deleteRange"
    /\ "args" \in DOMAIN op
    /\ op.args.a = 2
    /\ op.args.b = 1
    /\ Len(text) = 2
    /\ Len(runs) = 2

(***************************************************************************)
(* C15: applyStyle(a, b, prop, false, v) sets prop to v on exactly the     *)
(* characters of the normalized, clamped range [a, b), leaves the text and *)
(* every other character's style as they were, and the runs then read back *)
(* over the whole text are the maximal spans of equal style.               *)
(***************************************************************************)
\* the length of the longest prefix of st whose elements all equal st[1]
SpanLen(st) ==
    LET same == {k \in 1..Len(st) : \A i \in 1..k : st[i] = st[1]}
    IN  CHOOSE k \in same : \A j \in same : j <= k

\* the maximal spans of equal style of the text t, st being the style of each
\* of its characters: one run for each
RECURSIVE Spans(_, _)
Spans(t, st) ==
    IF t = << >> THEN << >>
    ELSE <<MkRun(SubSeq(t, 1, SpanLen(st)), st[1])>>
             \o Spans(SubSeq(t, SpanLen(st) + 1, Len(t)), SubSeq(st, SpanLen(st) + 1, Len(st)))

C15_ApplyStyleSetsRange ==
    [][(/\ op'.name = "applyStyle"
        /\ "args" \in DOMAIN op'
        /\ ~op'.args.toggle) =>
            LET a == op'.args.a
                b == op'.args.b
                lo == Max(0, Min(Min(a, b), Len(text)))
                hi == Max(0, Min(Max(a, b), Len(text)))
                was == CharStyles(runs)
                now == [i \in 1..Len(was) |->
                           IF lo < i /\ i <= hi
                           THEN [was[i] EXCEPT ![op'.args.prop] = op'.args.value]
                           ELSE was[i]]
            IN  /\ text' = text
                /\ CharStyles(runs') = now
                /\ RunsInRange(Cur', 0, Len(text')) = Spans(text', now)
    ]_vars

(***************************************************************************)
(* C16: toggling a boolean style property twice over the same range, with  *)
(* no edit in between, restores every character's style flags and the run  *)
(* sequence to what they were before the first toggle.                     *)
(***************************************************************************)
\* the step is the first of two toggles of a boolean property over a range
FirstToggle ==
    /\ op'.name = "applyStyle"
    /\ "args" \in DOMAIN op'
    /\ op'.args.toggle

\* the buffer after the second toggle, over the same range
ToggledBack == ApplyStyle(Cur', op'.args.a, op'.args.b, op'.args.prop, TRUE, TRUE)

C16_DoubleToggleRestores ==
    [][FirstToggle =>
        /\ CharStyles(ToggledBack.runs) = CharStyles(runs)
        /\ ToggledBack.runs = runs
    ]_vars

(***************************************************************************)
(* C17: a mutation that has nothing to do is ignored: insertAt with an     *)
(* empty text, and deleteRange and applyStyle whose normalized, clamped     *)
(* range is empty, leave the runs, the text and the version as they were.  *)
(***************************************************************************)
\* the step is an observed call whose text or clamped range is empty
NoOpCall ==
    /\ "args" \in DOMAIN op'
    /\ \/ op'.name = "insertAt" /\ op'.s = << >>
       \/ /\ op'.name \in {"deleteRange", "applyStyle"}
          /\ Max(0, Min(op'.args.a, Len(text))) = Max(0, Min(op'.args.b, Len(text)))

C17_NoOpMutationIgnored ==
    [][NoOpCall =>
        /\ runs' = runs
        /\ text' = text
        /\ version' = version
    ]_vars

(***************************************************************************)
(* C18: a paste whose clipboard read resolves after other input events     *)
(* types the pasted text over the caret or selection of the moment the     *)
(* read resolves, not of the moment paste was invoked; what the events in  *)
(* between did is kept as they left it.                                    *)
(***************************************************************************)
\* the step resumes pasteClipboard(): the read has resolved with the text op'.s
PasteResolved == op'.name = "typeText" /\ "from" \in DOMAIN op'

C18_PasteTypesAtResolution ==
    [][PasteResolved =>
        LET a == Min(anchor, head)
            b == Max(anchor, head)
            s == op'.s
        IN  /\ text' = SubSeq(text, 1, a) \o s \o SubSeq(text, b + 1, Len(text))
            /\ anchor' = a + Len(s)
            /\ head' = a + Len(s)
            /\ Len(history') >= 1
            /\ history'[Len(history')] = [text |-> text, a |-> anchor, h |-> head]
    ]_vars

\* a paste has resolved on a text and a caret that the events since its
\* invocation had changed
C18_Witness ==
    /\ op.name = "typeText"
    /\ "from" \in DOMAIN op
    /\ Len(history) >= 1
    /\ op.from.text # history[Len(history)].text
    /\ op.from.h # history[Len(history)].h
    /\ op.s # << >>

(***************************************************************************)
(* C19: when the clipboard read or write fails, no error reaches the       *)
(* caller and the editor is as if the operation had not been requested: a  *)
(* failed copy or cut leaves text, selection and history as they were, a   *)
(* failed paste inserts nothing and records no history entry.              *)
(***************************************************************************)
\* the step is a clipboard shortcut up to its await, or the rejection of its
\* promise
ClipboardFailed ==
    op'.name \in {"copyRequest", "cutRequest", "pasteRequest", "clipboardRejected"}

CompositionUpdated == op'.name = "compositionUpdate"

CompositionClosed == "ime" \in DOMAIN op'

\* nothing of the buffer, the selection or the two stacks changes
EditUntouched ==
    /\ runs' = runs /\ text' = text /\ version' = version
    /\ anchor' = anchor /\ head' = head
    /\ history' = history /\ redo' = redo

\* the step is one typeText(s): the selection is replaced by s, the caret
\* follows it, one snapshot of the state before is pushed and redo is emptied
TypedOnce(s) ==
    LET a == Min(anchor, head)
        b == Max(anchor, head)
    IN  /\ text' = SubSeq(text, 1, a) \o s \o SubSeq(text, b + 1, Len(text))
        /\ anchor' = a + Len(s)
        /\ head' = a + Len(s)
        /\ history' = PushedStack(history, Snapshot(Cur))
        /\ redo' = << >>

\* the final text of a compositionEnd: the text the event gives, else the
\* staged text
FinalText == IF op'.ime.given THEN op'.s ELSE compositionText

\* C20 as stated: compositionUpdate changes only the staging text;
\* compositionEnd inserts the final text through exactly one typeText call,
\* whatever the final text is, and leaves the controller not composing with
\* an empty staging text.
C20_CompositionEndOneTypeText ==
    [][/\ CompositionUpdated =>
            /\ EditUntouched
            /\ composing' = composing
            /\ compositionText' = op'.s
       /\ CompositionClosed =>
            /\ op'.s = FinalText
            /\ TypedOnce(FinalText)
            /\ ~composing'
            /\ compositionText' = << >>
    ]_vars

\* C20: compositionUpdate changes only the staging text. compositionEnd with
\* a non-empty final text (the text of the event, else the staged text)
\* inserts it through exactly one typeText call; with an empty final text it
\* makes no typeText call: buffer, selection, history and redo stay as they
\* are. Either way the controller is then not composing and the staging text
\* is empty.
C20_CompositionEndTypesNonEmpty ==
    [][/\ CompositionUpdated =>
            /\ EditUntouched
            /\ composing' = composing
            /\ compositionText' = op'.s
       /\ CompositionClosed =>
            /\ op'.s = FinalText
            /\ IF FinalText # << >> THEN TypedOnce(FinalText) ELSE EditUntouched
            /\ ~composing'
            /\ compositionText' = << >>
    ]_vars

\* an open composition whose staged text was committed over a selection by a
\* compositionEnd that gave no text
C20_Witness ==
    /\ "ime" \in DOMAIN op
    /\ op.ime.composing
    /\ ~op.ime.given
    /\ op.ime.staged = op.s
    /\ op.s # << >>
    /\ op.flag
    /\ ~composing
    /\ compositionText = << >>
    /\ Len(history) >= 2

(***************************************************************************)
(* TextLayout's mappings between offsets and points, and the moves of the  *)
(* caret by lines and pages.  E is a state ensure() has returned in.       *)
(***************************************************************************)
\* the smallest number of the non-empty set H
Least(H) == CHOOSE k \in H : \A j \in H : k <= j

\* a faulty indexForX that stops at the first offset past x, not at or past it
IndexPastX(E, lineIdx, x) ==
    LET lines == E.cache.lines
        L == lines[Max(0, Min(lineIdx, Len(lines) - 1)) + 1]
        endNoNL == EndNoNL(L, E.text)
        n == endNoNL - L.start
        H == {i \in 0..n : LeftEdge(E) + TextWidth(Slice(E.text, L.start, L.start + i),
                                                   PlainFont) > x}
    IN  IF H # {} THEN L.start + Least(H)
        ELSE IF n < 0 THEN L.start ELSE endNoNL

\* indexForX(lineIdx, x)
IndexForX(E, lineIdx, x) ==
    LET lines == E.cache.lines
        L == lines[Max(0, Min(lineIdx, Len(lines) - 1)) + 1]
        endNoNL == EndNoNL(L, E.text)
        n == endNoNL - L.start
        H == {i \in 0..n : LeftEdge(E) + TextWidth(Slice(E.text, L.start, L.start + i),
                                                   PlainFont) >= x}
    IN  IF H # {} THEN L.start + Least(H)
        ELSE IF n < 0 THEN L.start ELSE endNoNL

\* caretToXY(index): the point of the caret
CaretToXY(E, index) ==
    LET lines == E.cache.lines
        x0 == PaddingLeft + BorderSize
        y0 == PaddingTop + BorderSize - E.scrollY
        H == {i \in 1..Len(lines) : index <= lines[i].start \/ index <= lines[i].end}
    IN  IF H = {} THEN [x |-> x0, y |-> y0 + Len(lines) * LineHeight]
        ELSE LET i == Least(H)
                 L == lines[i]
                 within == Slice(L.text, 0, index - L.start)
             IN  IF index <= L.start THEN [x |-> x0, y |-> y0 + (i - 1) * LineHeight]
                 ELSE [x |-> x0 + TextWidth(within, PlainFont),
                       y |-> y0 + (i - 1) * LineHeight]

\* xyToCaret(x, y): the offset under a point
XyToCaret(E, x, y) ==
    LET lines == E.cache.lines
        left == E.originX + BorderSize + PaddingLeft
        top == E.originY + BorderSize + PaddingTop - E.scrollY
        innerY == Max(0, y - top)
        L == lines[Min(Len(lines) - 1, innerY \div LineHeight) + 1]
        H == {i \in 0..Len(L.text) : left + TextWidth(Slice(L.text, 0, i), PlainFont) >= x}
    IN  IF H # {} THEN L.start + Least(H) ELSE L.end

\* the column a vertical move aims at: the preferred column, set when absent
PreferredColumn(E) == IF E.preferredX = NullX THEN XForIndex(E, E.head) ELSE E.preferredX

\* the head moved to idx, the selection extended or collapsed
HeadMoved(S, idx, extend) == IF extend THEN SetHead(S, idx) ELSE CollapseTo(S, idx)

\* the line a move of delta lines from the head's line reaches
TargetLine(E, delta) ==
    Max(0, Min(LineIndexOf(E.cache.lines, E.text, E.head) + delta, Len(E.cache.lines) - 1))

\* moveCaretVertical after its first ensure()
VerticalMoved(E, dir, extend) ==
    IF E.hung THEN E
    ELSE AfterCaretChange(HeadMoved(E, IndexForX(E, TargetLine(E, dir), PreferredColumn(E)),
                                    extend))

\* moveCaretVertical(dir, extend)
MoveCaretVertical(S, dir, extend) == VerticalMoved(Ensure(S), dir, extend)

\* the lines pageMove moves by
DeltaLines(S, dir) ==
    LET viewLines == Max(1, Max(0, InnerHeight(S)) \div LineHeight)
    IN  Max(1, viewLines - 1) * (IF dir < 0 THEN -1 ELSE 1)

\* the scroll of pageMove: one page on, kept within the content
PageScrolled(E, delta) ==
    IF E.hung THEN E
    ELSE [E EXCEPT !.scrollY = Max(0, Min(Max(0, E.scrollY + delta * LineHeight),
                                          MaxScrollY(E, E.cache.lines)))]

\* pageMove after its ensure()
PageMoved(E, dir, extend) ==
    IF E.hung THEN E
    ELSE Invalidate(EnsureCaretVisible(PageScrolled(
             SetPreferredX(HeadMoved(E, IndexForX(E, TargetLine(E, DeltaLines(E, dir)),
                                                  PreferredColumn(E)), extend)),
             DeltaLines(E, dir))))

\* pageMove(dir, extend)
PageMove(S, dir, extend) == PageMoved(Ensure(S), dir, extend)

\* moveLineBoundary(toStart, extend) after its ensure() left E: the line is
\* the first whose [start, end] holds the head, line 0 when none does
LineBoundaryMoved(E, toStart, extend) ==
    IF E.hung THEN E
    ELSE LET lines == E.cache.lines
             H == {i \in 0..(Len(lines) - 1) :
                       E.head >= lines[i + 1].start /\ E.head <= lines[i + 1].end}
             L == lines[(IF H = {} THEN 0 ELSE Least(H)) + 1]
             pos == IF toStart THEN L.start ELSE EndNoNL(L, E.text)
         IN  AfterCaretChange(HeadMoved(E, pos, extend))

\* moveLineBoundary(toStart, extend)
MoveLineBoundary(S, toStart, extend) == LineBoundaryMoved(Ensure(S), toStart, extend)

(***************************************************************************)
(* TextMouse: the pointer on the editor                                    *)
(***************************************************************************)
\* isSep of getWordRangeAt: white space and punctuation
IsSep(c) == c \in {SP, NL, HyphenChar}

\* the scan of getWordRangeAt to the left: the start of the word
RECURSIVE WordStart(_, _)
WordStart(t, start) ==
    IF start > 0 /\ ~IsSep(CharAt(t, start - 1)) THEN WordStart(t, start - 1) ELSE start

\* the scan of getWordRangeAt to the right: the end of the word
RECURSIVE WordEnd(_, _)
WordEnd(t, end) ==
    IF end < Len(t) /\ ~IsSep(CharAt(t, end)) THEN WordEnd(t, end + 1) ELSE end

\* getWordRangeAt(index)
GetWordRangeAt(S, index) ==
    LET n == Len(S.text)
        i == Max(0, Min(index, n))
        i0 == IF i > 0 /\ i < n /\ IsSep(CharAt(S.text, i)) /\ ~IsSep(CharAt(S.text, i - 1))
              THEN i - 1 ELSE i
    IN  IF n = 0 THEN [start |-> 0, end |-> 0]
        ELSE [start |-> WordStart(S.text, i0), end |-> WordEnd(S.text, i0)]

\* the selection clickLeft leaves for the offset idx under the pointer: Shift
\* extends it, a double click takes the word, a plain click puts the caret
\* there and starts a drag selection
ClickSelected(E, idx, shift, dbl) ==
    IF shift THEN SetHead(E, idx)
    ELSE IF dbl THEN SetRange(E, GetWordRangeAt(E, idx).start, GetWordRangeAt(E, idx).end)
    ELSE [Invalidate(CollapseTo(E, idx)) EXCEPT !.selecting = TRUE]

\* clickLeft after xyToCaret gave idx; quick tells a click less than 300 ms
\* after the one before
Clicked(E, idx, shift, quick) ==
    IF E.hung THEN E
    ELSE LET near == idx - E.lastClickIndex <= 1 /\ E.lastClickIndex - idx <= 1
         IN  Invalidate(PreferredXIn([ClickSelected(E, idx, shift, quick /\ near)
                                          EXCEPT !.lastClickIndex = idx]))

\* clickLeft after its ensure()
ClickedAt(E, x, y, shift, quick) ==
    IF E.hung THEN E ELSE Clicked(E, XyToCaret(E, x, y), shift, quick)

\* onMouseDownLeft on the editor: onFocus(), then clickLeft() with the
\* pointer at (x, y)
ClickLeft(S, x, y, shift, quick) == ClickedAt(Ensure(Invalidate(S)), x, y, shift, quick)

\* clickLeftUp()
ClickLeftUp(S) ==
    IF S.hung THEN S
    ELSE [S EXCEPT !.selecting = FALSE, !.dragScrollbarY = FALSE, !.dragScrollbarX = FALSE]

\* hover() while no scrollbar is dragged.  TextMouse defines hover() twice
\* and the second definition replaces the first: it follows a scrollbar
\* drag when one is open and otherwise only calls super.hover(), which
\* reads the pointer and assigns nothing of the editor
Hover(S, x, y) == S

\* wheel(deltaX, deltaY): TextControl has no scrollBy, the call
\* c.scrollBy(dx, dy) raises a TypeError and nothing is assigned
Wheel(S, deltaX, deltaY) == [state |-> S, raised |-> "TypeError"]

\* the last operation, when it is a pointer event: the point or the wheel's
\* deltas, and the error the handler raised ("none" when it returned)
OpPointer(name, x, y, flag, raised) ==
    [name |-> name, s |-> << >>, flag |-> flag, x |-> x, y |-> y, raised |-> raised]

\* the x positions of the pointer: at offsets 0, 1 and 2 of a line of letters
\* of an editor at the origin
PointerXs == {BorderSize + PaddingLeft + k : k \in {0, 2, 4}}
\* the y positions of the pointer: on the first line and on the second
PointerYs == {BorderSize + PaddingTop + k : k \in {0, LineHeight}}
\* the deltas of the wheel: one line up, one line down
WheelDeltas == {-LineHeight, LineHeight}

\* the left button goes down on the editor
PointerDown ==
    \E x \in PointerXs, y \in PointerYs, shift \in BOOLEAN, quick \in BOOLEAN :
        /\ quick => lastClickIndex # -1
        /\ Becomes(ClickLeft(Cur, x, y, shift, quick))
        /\ op' = OpPointer("clickLeft", x, y, shift, "none")
        /\ UNCHANGED <<clipboard, pending>>

\* the pointer moves over the editor
PointerMove ==
    \E x \in PointerXs, y \in PointerYs :
        /\ ~dragScrollbarY /\ ~dragScrollbarX
        /\ Becomes(Hover(Cur, x, y))
        /\ op' = OpPointer("hover", x, y, FALSE, "none")
        /\ UNCHANGED <<clipboard, pending>>

\* the left button goes up
PointerUp ==
    /\ Becomes(ClickLeftUp(Cur))
    /\ op' = OpPointer("clickLeftUp", 0, 0, selecting, "none")
    /\ UNCHANGED <<clipboard, pending>>

\* the wheel turns over the editor
PointerWheel ==
    \E dy \in WheelDeltas :
        /\ Becomes(Wheel(Cur, 0, dy).state)
        /\ op' = OpPointer("wheel", 0, dy, FALSE, Wheel(Cur, 0, dy).raised)
        /\ UNCHANGED <<clipboard, pending>>

(***************************************************************************)
(* SpecPointer: the editor under pointer, key and IME events               *)
(***************************************************************************)
\* the version counter's cap in SpecPointer: the text setter leaves version
\* 1, two insertions follow
MaxPtrVersion == 3

\* a step of SpecPointer: no call is stuck in a loop, the version cap is not
\* reached
PtrStep == ~hung /\ version < MaxPtrVersion /\ UNCHANGED scen

NextPointer ==
    \/ PtrStep /\ PointerDown
    \/ PtrStep /\ PointerMove
    \/ PtrStep /\ PointerUp
    \/ PtrStep /\ PointerWheel
    \/ PtrStep /\ KeyChar
    \/ PtrStep /\ KeyEnter
    \/ PtrStep /\ CompositionStart
    \/ PtrStep /\ CompositionUpdate
    \/ PtrStep /\ CompositionEnd

SpecPointer == InitCtl /\ [][NextPointer]_vars

(***************************************************************************)
(* C21: at most one of the interaction states selecting, composing,        *)
(* draggingScrollbarY and draggingScrollbarX is active.                    *)
(***************************************************************************)
\* the interaction states that are active
ActiveStates ==
    {f \in {"selecting", "composing", "draggingScrollbarY", "draggingScrollbarX"} :
        \/ f = "selecting" /\ selecting
        \/ f = "composing" /\ composing
        \/ f = "draggingScrollbarY" /\ dragScrollbarY
        \/ f = "draggingScrollbarX" /\ dragScrollbarX}

\* C21: in every state reachable by pointer, key and IME events at most one
\* of selecting, composing, draggingScrollbarY, draggingScrollbarX is active.
C21_OneInteractionState == Cardinality(ActiveStates) <= 1

\* nothing sets a scrollbar drag flag: the branches of hover() that follow a
\* scrollbar drag never run
NoScrollbarDrag == ~dragScrollbarY /\ ~dragScrollbarX

(***************************************************************************)
(* C26: the wheel                                                          *)
(***************************************************************************)
\* C26: a wheel event moves the scroll offset by the given delta clamped to
\* [0, max(0, content - viewport)], completes without raising an error and
\* leaves text and selection unchanged.
C26_WheelScrollsClamped ==
    [][op'.name = "wheel" =>
        /\ op'.raised = "none"
        /\ scrollY' = Max(0, Min(scrollY + op'.y, MaxScrollY(Cur, Ensure(Cur).cache.lines)))
        /\ text' = text
        /\ anchor' = anchor
        /\ head' = head
    ]_vars

(***************************************************************************)
(* C22: toggleStyle with an empty selection                                *)
(***************************************************************************)
\* a toggleStyle call made with an empty selection
TypingStyleToggled == op'.name = "toggleStyle" /\ ~op'.flag

\* the style of the character typeText("a") would insert in the next state
NextTypedStyle == CharStyles(TypeText(Cur', <<"a">>).runs)[head' + 1]

\* C22: toggleStyle(prop) with an empty selection changes only the current
\* typing style, where prop is flipped: runs, text, version, selection and
\* both history stacks (and scroll, preferred column, layout cache) are
\* unchanged, and the next typeText inserts characters whose prop has the
\* flipped value.
C22_ToggleStyleEmptySelection ==
    [][TypingStyleToggled =>
        LET prop == op'.s[1]
        IN  /\ EditUntouched
            /\ scrollY' = scrollY /\ preferredX' = preferredX /\ cache' = cache
            /\ currentStyle' = [currentStyle EXCEPT ![prop] = ~currentStyle[prop]]
            /\ NextTypedStyle[prop] = ~currentStyle[prop]
    ]_vars

\* the typing style switched to bold at the caret, in a text already typed in
C22_Witness ==
    /\ op.name = "toggleStyle"
    /\ ~op.flag
    /\ currentStyle.bold
    /\ Len(text) >= 1
    /\ Len(history) >= 1
    /\ \A i \in 1..Len(runs) : ~runs[i].bold

(***************************************************************************)
(* SpecNav: the caret moved by lines, pages and characters over texts of   *)
(* several lines, in editors of several sizes and positions                *)
(***************************************************************************)
\* the texts moved in: a long line above a short one (Scenario E, scaled
\* down), an empty line between two lines, a line that wraps at a space
NavTexts == {<<"a", "a", "a", NL, "a">>, <<"a", NL, NL, "a", "a">>, <<"a", "a", SP, "a">>}
\* the inner widths: two letters, four letters
NavWidths == {4, 8}
\* the inner heights: half a line, one line, two lines
NavHeights == {LineHeight \div 2, LineHeight, 2 * LineHeight}
\* the positions of the editor on the rendering surface
NavOrigins == {0, 5}

\* the last operation, when it is a move of the caret: dir is its direction,
\* was the head and scroll the scroll offset before it
OpMove(name, flag, dir, was) ==
    [name |-> name, s |-> << >>, flag |-> flag, dir |-> dir, was |-> was,
     scroll |-> scrollY]

InitNav ==
    /\ \E t \in NavTexts, w \in NavWidths, h \in NavHeights, o \in NavOrigins :
           Starts(AssignText(NewControl(OuterSize(w), OuterSize(h), o, o, DefaultOpts), t))
    /\ clipboard = << >>
    /\ pending = << >>
    /\ op = Op("new", << >>, FALSE)
    /\ scen = NoScen

\* what the moves leave alone
NavFrame == ~hung /\ UNCHANGED <<clipboard, pending, scen>>

\* ArrowUp, ArrowDown, with or without Shift
NavArrowVert ==
    \E dir \in {-1, 1}, shift \in BOOLEAN :
        /\ Becomes(MoveCaretVertical(Cur, dir, shift))
        /\ op' = OpMove("moveCaretVertical", shift, dir, head)
        /\ NavFrame

\* PageUp, PageDown, with or without Shift
NavPage ==
    \E dir \in {-1, 1}, shift \in BOOLEAN :
        /\ Becomes(PageMove(Cur, dir, shift))
        /\ op' = OpMove("pageMove", shift, dir, head)
        /\ NavFrame

\* ArrowLeft, ArrowRight
NavArrowHoriz ==
    \E dir \in {-1, 1} :
        /\ Becomes(MoveCaretHoriz(Cur, dir, FALSE))
        /\ op' = OpMove("moveCaretHoriz", FALSE, dir, head)
        /\ NavFrame

\* Ctrl+Home, Ctrl+End
NavDocumentBoundary ==
    \E toStart \in BOOLEAN :
        /\ Becomes(MoveDocumentBoundary(Cur, toStart, FALSE))
        /\ op' = OpMove("moveDocumentBoundary", FALSE, IF toStart THEN -1 ELSE 1, head)
        /\ NavFrame

\* Home, End, with or without Shift
NavLineBoundary ==
    \E toStart \in BOOLEAN, shift \in BOOLEAN :
        /\ Becomes(MoveLineBoundary(Cur, toStart, shift))
        /\ op' = OpMove("moveLineBoundary", shift, IF toStart THEN -1 ELSE 1, head)
        /\ NavFrame

\* useFixedViewport(height): the editor is given another height
NavResize ==
    \E h \in NavHeights :
        /\ OuterSize(h) # height
        /\ Becomes(Invalidate([Cur EXCEPT !.height = OuterSize(h)]))
        /\ op' = OpMove("useFixedViewport", FALSE, 0, head)
        /\ NavFrame

\* ensureCaretVisible()
NavEnsureCaretVisible ==
    /\ Becomes(EnsureCaretVisible(Cur))
    /\ op' = OpMove("ensureCaretVisible", FALSE, 0, head)
    /\ NavFrame

NextNav ==
    \/ NavArrowVert
    \/ NavPage
    \/ NavArrowHoriz
    \/ NavDocumentBoundary
    \/ NavLineBoundary
    \/ NavResize
    \/ NavEnsureCaretVisible

SpecNav == InitNav /\ [][NextNav]_vars

(***************************************************************************)
(* C23: the preferred column across vertical moves                         *)
(***************************************************************************)
\* a step of moveCaretVertical or pageMove
VerticalStep == op'.name \in {"moveCaretVertical", "pageMove"}

\* the line of the head, in the table of the state
HeadLine(S) == LineIndexOf(Ensure(S).cache.lines, S.text, S.head)

\* the caret stands in its preferred column, or none is set
ColumnIsCarets(S) ==
    \/ S.preferredX = NullX
    \/ S.preferredX = XForIndex(Ensure(S), S.head)

\* C23: moveCaretVertical and pageMove read the preferred column and leave it
\* unchanged (set it from the caret when none is set), so that ArrowDown
\* from a line onto another one followed by ArrowUp returns the caret to its
\* original offset.
C23_VerticalKeepsPreferredColumn ==
    [][VerticalStep =>
        /\ preferredX' = PreferredColumn(Ensure(Cur))
        /\ (/\ op'.name = "moveCaretVertical" /\ op'.dir = 1 /\ ~op'.flag
            /\ anchor = head
            /\ ColumnIsCarets(Cur)
            /\ HeadLine(Cur') # HeadLine(Cur))
           => MoveCaretVertical(Cur', -1, FALSE).head = head
    ]_vars

\* the return of the caret alone: ArrowDown onto another line, then ArrowUp
C23_DownThenUpReturns ==
    [][(/\ op'.name = "moveCaretVertical" /\ op'.dir = 1 /\ ~op'.flag
        /\ anchor = head
        /\ ColumnIsCarets(Cur)
        /\ HeadLine(Cur') # HeadLine(Cur))
       => MoveCaretVertical(Cur', -1, FALSE).head = head
    ]_vars

(***************************************************************************)
(* C24: where moveCaretVertical lands                                      *)
(***************************************************************************)
\* the last caret position of line L: before its terminating newline
LastCaretOf(L, t) == IF L.end > L.start /\ t[L.end] = NL THEN L.end - 1 ELSE L.end

\* the x position of offset o on line L, of an editor whose text starts at left
ColumnX(L, t, left, o) == left + TextWidth(SubSeq(t, L.start + 1, o), PlainFont)

\* C24: moveCaretVertical(dir) moves the head to the adjacent line (the same
\* line at the first and the last), at the first offset of that line whose x
\* position reaches the preferred column, clamped to the line's last caret
\* position before any terminating newline; the anchor follows unless the
\* move extends the selection.
C24_VerticalMoveLands ==
    [][op'.name = "moveCaretVertical" =>
        LET E == Ensure(Cur)
            lines == E.cache.lines
            target == Max(0, Min(HeadLine(Cur) + op'.dir, Len(lines) - 1))
            L == lines[target + 1]
            last == LastCaretOf(L, text)
            px == PreferredColumn(E)
        IN  /\ head' \in L.start..last
            /\ ColumnX(L, text, LeftEdge(Cur), head') >= px \/ head' = last
            /\ \A o \in L.start..(head' - 1) : ColumnX(L, text, LeftEdge(Cur), o) < px
            /\ anchor' = IF op'.flag THEN anchor ELSE head'
    ]_vars

\* Scenario E scaled down: in 'aaa\na', not wrapped, ArrowDown from offset 3,
\* the end of the long line, has put the caret at offset 5, the end of 'a'
C24_Witness ==
    /\ op.name = "moveCaretVertical"
    /\ op.dir = 1
    /\ op.was = 3
    /\ text = <<"a", "a", "a", NL, "a">>
    /\ InnerWidth(Cur) = 8
    /\ head = 5
    /\ anchor = 5

(***************************************************************************)
(* C25: ensureCaretVisible                                                 *)
(***************************************************************************)
\* the height of the viewport
ViewportHeight(S) == Max(0, InnerHeight(S))

\* the largest scroll offset: max(0, contentHeight - viewportHeight)
ScrollLimit(S) ==
    Max(0, Len(Ensure(S).cache.lines) * LineHeight - ViewportHeight(S))

\* the caret's line lies entirely within the viewport scrolled to y
CaretLineWithin(S, y) ==
    /\ HeadLine(S) * LineHeight >= y
    /\ (HeadLine(S) + 1) * LineHeight <= y + ViewportHeight(S)

\* the operations that end with ensureCaretVisible()
EndsWithEnsureCaretVisible ==
    op'.name \in {"ensureCaretVisible", "moveCaretVertical", "pageMove", "moveCaretHoriz",
                  "moveDocumentBoundary"}

\* C25: after ensureCaretVisible() the scroll offset lies in
\* [0, max(0, contentHeight - viewportHeight)] and, when the viewport is at
\* least one line high, the caret's line lies entirely within
\* [scroll, scroll + viewportHeight]; if the caret's line was already inside
\* the viewport and the scroll was in range, the scroll offset is unchanged.
C25_EnsureCaretVisible ==
    [][/\ EndsWithEnsureCaretVisible =>
            /\ scrollY' >= 0
            /\ scrollY' <= ScrollLimit(Cur')
            /\ ViewportHeight(Cur') >= LineHeight => CaretLineWithin(Cur', scrollY')
       /\ (/\ op'.name = "ensureCaretVisible"
           /\ scrollY >= 0 /\ scrollY <= ScrollLimit(Cur)
           /\ CaretLineWithin(Cur, scrollY))
          => scrollY' = scrollY
    ]_vars

\* ensureCaretVisible() called with the caret's line below the viewport has
\* scrolled down to it
C25_Witness ==
    /\ op.name = "ensureCaretVisible"
    /\ op.scroll < scrollY
    /\ scrollY = ScrollLimit(Cur)
    /\ ViewportHeight(Cur) >= LineHeight
    /\ CaretLineWithin(Cur, scrollY)

(***************************************************************************)
(* C27: undo after typing over a selection                                 *)
(***************************************************************************)
\* a typeText call that replaced a non-empty selection
TypedOverSelection == op'.name = "typeText" /\ op'.flag /\ anchor # head

\* C27: one undo() immediately after a typeText that replaced a non-empty
\* selection restores the text, anchor and head that held before that
\* typeText: the deletion and the insertion are undone as one step.
C27_UndoRestoresReplacedSelection ==
    [][TypedOverSelection =>
        /\ Undo(Cur').text = text
        /\ Undo(Cur').anchor = anchor
        /\ Undo(Cur').head = head
        /\ Len(Undo(Cur').history) = Len(history') - 1
    ]_vars

\* a character typed over a selection made backwards, of which the history
\* holds the snapshot
C27_Witness ==
    /\ op.name = "typeText"
    /\ op.flag
    /\ Len(op.s) = 1
    /\ Len(history) >= 1
    /\ history[Len(history)].a > history[Len(history)].h
    /\ Undo(Cur).text # text

(***************************************************************************)
(* SpecQuery: the mappings of TextLayout called on texts laid out under    *)
(* every combination of the layout options, in editors of several widths   *)
(* and positions, scrolled or not                                          *)
(***************************************************************************)
\* the texts queried: those of SpecNav and a word that hyphenates before a
\* newline
QueryTexts == NavTexts \cup {<<SP, "a", "a", NL>>}
\* the inner widths: one letter, two letters, four letters
QueryWidths == {3, 4, 8}

\* the last operation, when it is a call of a mapping: o is the offset
\* asked about, at the point or column it was mapped to (when one was) and
\* result what the call returned
OpQuery(name, o, at, result) ==
    [name |-> name, s |-> << >>, flag |-> FALSE, o |-> o, at |-> at, result |-> result]

\* no point
NoPoint == [x |-> 0, y |-> 0]

InitQuery ==
    /\ \E t \in QueryTexts, w \in QueryWidths, og \in NavOrigins, o \in LayOpts :
           Starts(AssignText(NewControl(OuterSize(w), OuterSize(LineHeight), og, og, o), t))
    /\ clipboard = << >>
    /\ pending = << >>
    /\ op = Op("new", << >>, FALSE)
    /\ scen = NoScen

\* what the queries leave alone; a query made while ensure() hangs never returns
QueryFrame == UNCHANGED <<clipboard, pending, scen>>

\* a query whose ensure() left E and which returned what op says
Queried(E, name, o, at, result) ==
    /\ Becomes(E)
    /\ op' = IF E.hung THEN Op("ensure", << >>, FALSE) ELSE OpQuery(name, o, at, result)
    /\ QueryFrame

\* lineIndexOf(o)
QueryLineIndexOf ==
    \E o \in 0..Len(text) :
        /\ ~hung
        /\ Queried(Ensure(Cur), "lineIndexOf", o, NoPoint,
                   LineIndexOf(Ensure(Cur).cache.lines, text, o))

\* xForIndex(o)
QueryXForIndex ==
    \E o \in 0..Len(text) :
        /\ ~hung
        /\ Queried(Ensure(Cur), "xForIndex", o, NoPoint, XForIndex(Ensure(Cur), o))

\* indexForX(lineIndexOf(o), x) with the x that xForIndex(o) has just returned
QueryIndexForX ==
    /\ ~hung
    /\ op.name = "xForIndex"
    /\ Queried(Ensure(Cur), "indexForX", op.o, [x |-> op.result, y |-> 0],
               IndexForX(Ensure(Cur), LineIndexOf(Ensure(Cur).cache.lines, text, op.o),
                         op.result))

\* caretToXY(o)
QueryCaretToXY ==
    \E o \in 0..Len(text) :
        /\ ~hung
        /\ Queried(Ensure(Cur), "caretToXY", o, NoPoint, CaretToXY(Ensure(Cur), o))

\* xyToCaret(x, y) with the point that caretToXY(o) has just returned
QueryXyToCaret ==
    /\ ~hung
    /\ op.name = "caretToXY"
    /\ Queried(Ensure(Cur), "xyToCaret", op.o, op.result,
               XyToCaret(Ensure(Cur), op.result.x, op.result.y))

\* the distances from the left edge of the text of the columns asked about:
\* the edge, inside the second letter, right of every line
QueryColumns == {0, 3, 40}

\* the y of the top of line li on the rendering surface
LineTop(E, li) == E.originY + BorderSize + PaddingTop - E.scrollY + li * LineHeight

\* indexForX(li, x) for a line li of the table and a column x
QueryIndexForXAt ==
    \E li \in 0..(Len(Ensure(Cur).cache.lines) - 1), k \in QueryColumns :
        /\ ~hung
        /\ Queried(Ensure(Cur), "indexForXAt", li, [x |-> LeftEdge(Cur) + k, y |-> 0],
                   IndexForX(Ensure(Cur), li, LeftEdge(Cur) + k))

\* xyToCaret(x, y) for a point (x, y) on line li of the table
QueryXyToCaretAt ==
    \E li \in 0..(Len(Ensure(Cur).cache.lines) - 1), k \in QueryColumns :
        /\ ~hung
        /\ Queried(Ensure(Cur), "xyToCaretAt", li,
                   [x |-> LeftEdge(Cur) + k, y |-> LineTop(Ensure(Cur), li)],
                   XyToCaret(Ensure(Cur), LeftEdge(Cur) + k, LineTop(Ensure(Cur), li)))

\* Ctrl+End: the caret at the end of the text, the editor scrolled to it
QueryScrollToEnd ==
    /\ ~hung
    /\ head # Len(text)
    /\ Becomes(MoveDocumentBoundary(Cur, FALSE, FALSE))
    /\ op' = Op("moveDocumentBoundary", << >>, FALSE)
    /\ QueryFrame

NextQuery ==
    \/ QueryLineIndexOf
    \/ QueryXForIndex
    \/ QueryIndexForX
    \/ QueryCaretToXY
    \/ QueryXyToCaret
    \/ QueryIndexForXAt
    \/ QueryXyToCaretAt
    \/ QueryScrollToEnd

SpecQuery == InitQuery /\ [][NextQuery]_vars

(***************************************************************************)
(* C28: lineIndexOf                                                        *)
(***************************************************************************)
\* line li of the table contains offset o, and starts at o when o follows a
\* newline
LineHolds(S, li, o) ==
    LET L == S.cache.lines[li + 1]
    IN  /\ L.start <= o
        /\ o <= L.end
        /\ (o > 0 /\ S.text[o] = NL) => L.start = o

\* C28: for every offset o in [0, length], lineIndexOf(o) returns a line
\* whose [start, end] contains o, and the line starting at o when o is the
\* position immediately after a newline.
C28_LineIndexOfContains == op.name = "lineIndexOf" => LineHolds(Cur, op.result, op.o)

(***************************************************************************)
(* C29: caretToXY and xyToCaret                                            *)
(***************************************************************************)
\* C29: for every offset o in [0, length], at any scroll offset and any
\* position of the control on the rendering surface, xyToCaret applied to
\* the point returned by caretToXY(o) returns o.
C29_PointRoundTrip == op.name = "xyToCaret" => op.result = op.o

(***************************************************************************)
(* C30: xForIndex and indexForX                                            *)
(***************************************************************************)
\* C30: for every offset o in [0, length] of a text whose characters all
\* have positive width, indexForX(lineIndexOf(o), xForIndex(o)) = o.
C30_ColumnRoundTrip == op.name = "indexForX" => op.result = op.o

\* the offset after the newline that ends the text, on a line below a wrapped
\* one, mapped to its column and back
C30_Witness ==
    /\ op.name = "indexForX"
    /\ op.o = Len(text)
    /\ text[op.o] = NL
    /\ op.result = op.o
    /\ op.at.x = LeftEdge(Cur)
    /\ Len(cache.lines) >= 3
    /\ originX > 0

(***************************************************************************)
(* C31: a column mapped to an offset on a line that a newline ends         *)
(***************************************************************************)
\* line li of the table ends with a newline of the text
EndsWithNewline(S, li) ==
    LET L == S.cache.lines[li + 1]
    IN  L.end > L.start /\ L.end <= Len(S.text) /\ S.text[L.end] = NL

\* a column or a point of line op.o has just been mapped to an offset
ColumnMapped == op.name \in {"indexForXAt", "xyToCaretAt"}

\* C31: on a line terminated by an explicit newline, mapping an x
\* coordinate to an offset never places the caret past the newline: for any
\* x, indexForX on that line and xyToCaret at a y on that line return at
\* most end - 1, the offset just before the newline.
C31_ColumnStopsBeforeNewline ==
    (ColumnMapped /\ EndsWithNewline(Cur, op.o))
        => op.result <= cache.lines[op.o + 1].end - 1

\* the same of indexForX alone
IndexForXStopsBeforeNewline ==
    (op.name = "indexForXAt" /\ EndsWithNewline(Cur, op.o))
        => op.result <= cache.lines[op.o + 1].end - 1

(***************************************************************************)
(* C32: the word break                                                     *)
(***************************************************************************)
\* the font ensure() measures the character at offset i in: that of its run
\* when the layout is style-aware, the layout's own font otherwise
MeasuredFont(S, i) ==
    IF S.styleAwareLayout THEN FontOf(CharStyles(S.runs)[i + 1]) ELSE PlainFont

\* the measured width of the k characters of the text from offset a on
RECURSIVE SpanWidth(_, _, _)
SpanWidth(S, a, k) ==
    IF k = 0 THEN 0
    ELSE SpanWidth(S, a, k - 1) + CharWidth(S.text[a + k], MeasuredFont(S, a + k - 1))

\* the offset at which the paragraph holding offset a ends
ParaEnd(t, a) ==
    LET N == {j \in a..(Len(t) - 1) : t[j + 1] = NL}
    IN  IF N = {} THEN Len(t) ELSE Least(N)

\* the length of the maximal-fit prefix of the paragraph's remainder from a
MaxFit(S, a) ==
    LET K == {k \in 0..(ParaEnd(S.text, a) - a) : SpanWidth(S, a, k) <= AvailWidth(S)}
    IN  CHOOSE k \in K : \A j \in K : j <= k

\* line i of the table breaks after the last whitespace of the maximal-fit
\* prefix, whenever that prefix leaves some of the paragraph over and its
\* last whitespace is before its last position
BreaksAtWord(S, i) ==
    LET L == S.cache.lines[i]
        k == MaxFit(S, L.start)
        s == LastSpace(Slice(S.text, L.start, L.start + k))
    IN  (k < ParaEnd(S.text, L.start) - L.start /\ 0 <= s /\ s < k - 1)
            => /\ L.text = Slice(S.text, L.start, L.start + s + 1)
               /\ L.end = L.start + s + 1
               /\ i < Len(S.cache.lines)
               /\ S.cache.lines[i + 1].start = L.end

\* ensure() has just returned the table of a text wrapped by words, not
\* hyphenated
WordWrapped ==
    /\ op.name = "ensure" /\ ~hung
    /\ wrap /\ wordWrap = "word" /\ ~hyphenate

\* C32: in word-wrap mode without hyphenation, whenever the maximal-fit
\* prefix of the remaining paragraph does not exhaust the paragraph and
\* contains a whitespace character before its last position, the emitted
\* line ends immediately after the last such whitespace and the characters
\* after it are carried to the next line.
C32_WordWrapBreaksAfterSpace ==
    WordWrapped => \A i \in 1..Len(cache.lines) : BreaksAtWord(Cur, i)

(***************************************************************************)
(* C33: the hyphen                                                         *)
(***************************************************************************)
\* line L of the table was hyphenated: the texts laid out hold no hyphen
Hyphenated(L) == L.text # << >> /\ L.text[Len(L.text)] = HyphenChar

\* the characters of the buffer that lines 1..n of the table consumed: those
\* of their texts, less the hyphens, and the newlines that end paragraphs
RECURSIVE Consumed(_, _)
Consumed(lines, n) ==
    IF n = 0 THEN 0
    ELSE Consumed(lines, n - 1) + (lines[n].end - lines[n].start)
             - (IF Hyphenated(lines[n]) THEN 1 ELSE 0)

\* the hyphen of line i stands where the claim allows it: the candidate line
\* - the maximal-fit prefix of the paragraph's remainder - leaves some of the
\* paragraph over and holds no whitespace before its last position
HyphenAllowed(S, i) ==
    LET a == Consumed(S.cache.lines, i - 1)
        k == MaxFit(S, a)
        s == LastSpace(Slice(S.text, a, a + k))
    IN  /\ k < ParaEnd(S.text, a) - a
        /\ ~(0 <= s /\ s < k - 1)

\* line i keeps a character of the buffer before its hyphen
HyphenAfterChar(S, i) ==
    LET L == S.cache.lines[i]
    IN  /\ Len(L.text) >= 2
        /\ L.text[1] = S.text[Consumed(S.cache.lines, i - 1) + 1]

\* line i fits the width with its hyphen when one character and the hyphen do
HyphenFits(S, i) ==
    LET L == S.cache.lines[i]
        a == Consumed(S.cache.lines, i - 1)
        hy == CharWidth(HyphenChar, MeasuredFont(S, a))
    IN  SpanWidth(S, a, 1) + hy <= AvailWidth(S)
            => SpanWidth(S, a, Len(L.text) - 1) + hy <= AvailWidth(S)

\* ensure() has just returned the table of a text wrapped by words and
\* hyphenated
WordHyphenated ==
    /\ op.name = "ensure" /\ ~hung
    /\ wrap /\ wordWrap = "word" /\ hyphenate

\* C33: with word-wrap and hyphenation enabled, the hyphen character is
\* appended to an emitted line only when the paragraph is not exhausted and
\* the candidate line has no whitespace boundary to break at; the emitted
\* line then has at least one buffer character before the hyphen, and line
\* plus hyphen fits the width whenever one character plus the hyphen fits.
C33_HyphenOnlyWithoutBoundary ==
    WordHyphenated
        => \A i \in 1..Len(cache.lines) :
               Hyphenated(cache.lines[i])
                   => /\ HyphenAllowed(Cur, i)
                      /\ HyphenAfterChar(Cur, i)
                      /\ HyphenFits(Cur, i)

(***************************************************************************)
(* C34: the drag selection                                                 *)
(***************************************************************************)
\* the pointer has just moved while the selecting state was open
MovedWhileSelecting == selecting /\ op'.name = "hover"

\* the offset under the pointer of the last pointer event
UnderPointer == XyToCaret(Ensure(Cur), op'.x, op'.y)

\* C34: after a plain left pointer-down in the editor, every pointer move
\* until pointer-up sets the selection head to the offset under the pointer
\* and leaves the anchor at the pointer-down offset; pointer-up ends the
\* selecting state.
C34_DragExtendsSelection ==
    [][/\ MovedWhileSelecting => (head' = UnderPointer /\ anchor' = anchor)
       /\ op'.name = "clickLeftUp" => ~selecting']_vars

\* pointer-up ends the selecting state, and a pointer move leaves the anchor
PointerUpEndsSelecting ==
    [][/\ MovedWhileSelecting => anchor' = anchor
       /\ op'.name = "clickLeftUp" => ~selecting']_vars

(***************************************************************************)
(* C35: undo after a style toggle                                          *)
(***************************************************************************)
\* toggleStyle has just run over a non-empty selection
SelectionStyleToggled == op'.name = "toggleStyle" /\ op'.flag

\* C35: undo() immediately after toggleStyle(prop) over a non-empty
\* selection restores every character's bold, italic, underline and color
\* to the value it had before the toggle; styles that existed anywhere in
\* the buffer before the toggle are not lost.
C35_UndoRestoresStyles ==
    [][SelectionStyleToggled => CharStyles(Undo(Cur').runs) = CharStyles(runs)]_vars

\* undo() after the toggle restores the text and the selection
UndoOfToggleRestoresText ==
    [][SelectionStyleToggled
           => /\ Undo(Cur').text = text
              /\ Undo(Cur').anchor = anchor
              /\ Undo(Cur').head = head]_vars

(***************************************************************************)
(* C36: what a cut removes                                                 *)
(***************************************************************************)
\* the write of a cut has just resolved: copySelection resumed and cut
CutCompleted == op'.name = "cut" /\ "from" \in DOMAIN op'

\* t1 is t0 less the characters s, taken out in one piece
RemovedFrom(t0, t1, s) ==
    \E p \in 0..Len(t1) : t0 = Slice(t1, 0, p) \o s \o Slice(t1, p, Len(t1))

\* C36: a cut removes from the buffer exactly the characters that were
\* written to the clipboard, even when other input events (caret moves,
\* selection changes, typing) are processed between the cut request and the
\* completion of the clipboard write.
C36_CutRemovesWhatWasWritten ==
    [][CutCompleted => (clipboard' = op'.s /\ RemovedFrom(text, text', op'.s))]_vars

\* the same of a cut whose write resolves with the text and the selection
\* as they were at the request
CutUndisturbedRemovesWritten ==
    [][(CutCompleted /\ op'.from = Snapshot(Cur))
           => (clipboard' = op'.s /\ RemovedFrom(text, text', op'.s))]_vars

(***************************************************************************)
(* C37: Home and End                                                       *)
(***************************************************************************)
\* Home or End was pressed with the caret immediately after a newline
BoundaryAfterNewline ==
    /\ op'.name = "moveLineBoundary"
    /\ head > 0 /\ text[head] = NL

\* the line lineIndexOf reports for the head
LineOfHead == Ensure(Cur).cache.lines[HeadLine(Cur) + 1]

\* C37: moveLineBoundary acts on the line that lineIndexOf reports for the
\* head: with the caret immediately after a newline (visually at the start
\* of the following line), Home leaves the caret at that offset and End
\* moves it to the end of that following line, never onto the line the
\* newline terminates.
C37_LineBoundaryOfCaretLine ==
    [][BoundaryAfterNewline
           => head' = IF op'.dir = -1 THEN head ELSE LastCaretOf(LineOfHead, text)]_vars

\* away from a newline, Home and End go to the start and to the last caret
\* position of the line lineIndexOf reports for the head
LineBoundaryElsewhere ==
    [][(op'.name = "moveLineBoundary" /\ ~(head > 0 /\ text[head] = NL))
           => head' = IF op'.dir = -1 THEN LineOfHead.start
                      ELSE LastCaretOf(LineOfHead, text)]_vars

(***************************************************************************)
(* C38: the two paths of ensure()                                          *)
(***************************************************************************)
\* every run has the same style, and per-run measurement is the plain one
UniformPlainRuns(S) ==
    /\ \A i, j \in 1..Len(S.runs) : StyleOf(S.runs[i]) = StyleOf(S.runs[j])
    /\ \A i \in 1..Len(S.runs) : FontOf(S.runs[i]) = PlainFont

\* the table ensure() computes in S with styleAwareLayout set the other way
OtherPath(S) ==
    Layout(S.runs, S.text, AvailWidth(S),
           [Opts(S) EXCEPT !.styleAwareLayout = ~S.styleAwareLayout])

\* ensure() has just returned the table of a text of uniform style, in a
\* positive width
UniformLaidOut ==
    /\ op.name = "ensure" /\ ~hung
    /\ UniformPlainRuns(Cur)
    /\ AvailWidth(Cur) > 0

\* C38: when every run has the same style, so that per-run and plain
\* measurement give the same widths, ensure() with styleAwareLayout enabled
\* returns the same line table (texts, starts and ends) as with it
\* disabled, for every text, positive width and setting of wrap, wordWrap
\* and hyphenate.
C38_StyleAwareSameTable ==
    UniformLaidOut => OtherPath(Cur) = [hangs |-> FALSE, lines |-> cache.lines]

(***************************************************************************)
(* SpecSession: the editor under every operation of the controller - keys, *)
(* caret moves, clicks, undo and redo, assignments of the text, cuts and   *)
(* pastes that complete between other events - with hyphenation disabled   *)
(***************************************************************************)
\* the number of events of a session
MaxSessionEvents == 4

\* the texts the editors of SpecSession start with, and those assigned later
SessionTexts == {<<"a", "b">>, <<"a", NL, "a">>}
AssignedTexts == {<< >>, <<"a">>}

\* the options of the sessions: hyphenation disabled, the plain path of the
\* layout, wrapping by words or not wrapping
SessionOpts == {o \in LayOpts : ~o.hyphenate /\ o.wordWrap = "word" /\ ~o.styleAwareLayout}

InitSession ==
    /\ \E t \in SessionTexts, o \in SessionOpts :
           Starts(AssignText(NewControl(OuterSize(CtlInnerWidth), OuterSize(CtlInnerHeight),
                                        0, 0, o), t))
    /\ clipboard = << >>
    /\ pending = << >>
    /\ op = Op("new", << >>, FALSE)
    /\ scen = NoScen

\* an event of SpecSession whose handler left S: op keeps its name only, and
\* the promises in flight stay as they are
SessionDid(name, S) ==
    /\ Becomes(S)
    /\ op' = Op(name, << >>, FALSE)
    /\ UNCHANGED <<clipboard, pending>>

\* a printable key, or Enter
SessionTypeText ==
    \E c \in TypeChars \cup {NL} :
        /\ LenAfterTyping(<<c>>) <= MaxLen
        /\ SessionDid("typeText", TypeText(Cur, <<c>>))

SessionBackspace == SessionDid("backspace", Backspace(Cur))

SessionDelete == SessionDid("delete", DeleteKey(Cur))

\* ArrowLeft, ArrowRight, with or without Shift
SessionArrowHoriz ==
    \E dir \in {-1, 1}, shift \in BOOLEAN :
        SessionDid("moveCaretHoriz", MoveCaretHoriz(Cur, dir, shift))

\* ArrowUp, ArrowDown, with or without Shift
SessionArrowVert ==
    \E dir \in {-1, 1}, shift \in BOOLEAN :
        SessionDid("moveCaretVertical", MoveCaretVertical(Cur, dir, shift))

\* PageUp, PageDown, with or without Shift
SessionPage ==
    \E dir \in {-1, 1}, shift \in BOOLEAN :
        SessionDid("pageMove", PageMove(Cur, dir, shift))

\* Home, End, with or without Shift
SessionLineBoundary ==
    \E toStart \in BOOLEAN, shift \in BOOLEAN :
        SessionDid("moveLineBoundary", MoveLineBoundary(Cur, toStart, shift))

\* Ctrl+Home, Ctrl+End, with or without Shift
SessionDocumentBoundary ==
    \E toStart \in BOOLEAN, shift \in BOOLEAN :
        SessionDid("moveDocumentBoundary", MoveDocumentBoundary(Cur, toStart, shift))

SessionSelectAll == SessionDid("selectAll", SelectAll(Cur))

\* the left button goes down on the editor, with or without Shift, as a
\* first click or as the second of a double click
SessionClick ==
    \E x \in PointerXs, y \in PointerYs, shift \in BOOLEAN, quick \in BOOLEAN :
        /\ quick => lastClickIndex # -1
        /\ SessionDid("clickLeft", ClickLeft(Cur, x, y, shift, quick))

SessionUndo == SessionDid("undo", Undo(Cur))

SessionRedo == SessionDid("redo", Redo(Cur))

\* editor.text = t
SessionAssignText ==
    \E t \in AssignedTexts : SessionDid("assignText", AssignText(Cur, t))

\* the snapshot the promises of SpecSession carry: none is kept
NoSnapshot == [text |-> << >>, a |-> 0, h |-> 0]

\* Ctrl+X: copySelection(true) up to its await of clipboard.writeText
SessionCutRequest ==
    /\ Len(pending) < MaxPending
    /\ ~SelEmpty(Cur)
    /\ pending' = Append(pending, [kind |-> "write", cut |-> TRUE,
                                   txt |-> Slice(text, SelStart(Cur), SelEnd(Cur)),
                                   from |-> NoSnapshot])
    /\ op' = Op("cutRequest", << >>, FALSE)
    /\ Becomes(Cur)
    /\ UNCHANGED clipboard

\* Ctrl+V: pasteClipboard() up to its await of clipboard.readText
SessionPasteRequest ==
    /\ Len(pending) < MaxPending
    /\ pending' = Append(pending, [kind |-> "read", cut |-> FALSE, txt |-> << >>,
                                   from |-> NoSnapshot])
    /\ op' = Op("pasteRequest", << >>, FALSE)
    /\ Becomes(Cur)
    /\ UNCHANGED clipboard

\* clipboard.writeText resolves: the cut is made
SessionCutCompletes ==
    \E i \in 1..Len(pending) :
        /\ pending[i].kind = "write"
        /\ clipboard' = pending[i].txt
        /\ pending' = Settled(i)
        /\ Becomes(CutAfterWrite(Cur))
        /\ op' = Op("cut", << >>, FALSE)

\* clipboard.readText resolves: the text read is typed
SessionPasteCompletes ==
    \E i \in 1..Len(pending), t \in {clipboard} \cup ForeignClips :
        /\ pending[i].kind = "read"
        /\ LenAfterTyping(t) <= MaxLen
        /\ pending' = Settled(i)
        /\ Becomes(TypeText(Cur, t))
        /\ op' = Op("paste", << >>, FALSE)
        /\ UNCHANGED clipboard

\* a step of SpecSession: no call is stuck in a loop and the session is not
\* over; scen.k counts the events of the session
SessionStep == ~hung /\ scen.k < MaxSessionEvents /\ scen' = [scen EXCEPT !.k = @ + 1]

NextSession ==
    \/ SessionStep /\ SessionTypeText
    \/ SessionStep /\ SessionBackspace
    \/ SessionStep /\ SessionDelete
    \/ SessionStep /\ SessionArrowHoriz
    \/ SessionStep /\ SessionArrowVert
    \/ SessionStep /\ SessionPage
    \/ SessionStep /\ SessionLineBoundary
    \/ SessionStep /\ SessionDocumentBoundary
    \/ SessionStep /\ SessionSelectAll
    \/ SessionStep /\ SessionClick
    \/ SessionStep /\ SessionUndo
    \/ SessionStep /\ SessionRedo
    \/ SessionStep /\ SessionAssignText
    \/ SessionStep /\ SessionCutRequest
    \/ SessionStep /\ SessionPasteRequest
    \/ SessionStep /\ SessionCutCompletes
    \/ SessionStep /\ SessionPasteCompletes

SpecSession == InitSession /\ [][NextSession]_vars

(***************************************************************************)
(* C39: the selection stays inside the text                                *)
(***************************************************************************)
\* C39: with hyphenation disabled, after any sequence of controller
\* operations (typeText, Enter, Backspace, Delete, caret moves with or
\* without extend, select-all, pointer click, undo, redo, assignment of the
\* text property, completion of a cut or paste), both anchor and head lie
\* in [0, text length].
C39_SelectionWithinText ==
    /\ 0 <= anchor /\ anchor <= Len(text)
    /\ 0 <= head /\ head <= Len(text)

\* a shorter text was assigned while the caret stood at the end of a longer
\* one: the caret is at the end of the new text
C39_Witness ==
    /\ op.name = "assignText"
    /\ text = <<"a">>
    /\ anchor = 1 /\ head = 1
    /\ ~hyphenate

(***************************************************************************)
(* SpecLineage: controls are added to one another, removed, and destroyed. *)
(* The controls start detached; a control is added only when it has no     *)
(* parent and the new parent is not below it, so the lineage is a forest.  *)
(***************************************************************************)
InitLineage ==
    /\ Starts([NewControl(OuterSize(CtlInnerWidth), OuterSize(CtlInnerHeight), 0, 0,
                          DefaultOpts) EXCEPT !.lineage = Detached])
    /\ clipboard = << >>
    /\ pending = << >>
    /\ op = Op("new", << >>, FALSE)
    /\ scen = NoScen

\* a call on the lineage that leaves r: the tree, and whether the call hangs
LineageDid(name, args, had, r) ==
    /\ ~hung
    /\ Becomes([Cur EXCEPT !.lineage = r.t, !.hung = r.hangs])
    /\ op' = Op(name, args, had)
    /\ UNCHANGED <<clipboard, pending, scen>>

\* p.add(c)
LineageAdd ==
    \E p \in Controls, c \in Controls \ {"form"} :
        /\ lineage[c].parent = NoControl
        /\ ~Below(lineage, c, p)
        /\ LineageDid("add", <<p, c>>, FALSE,
                      [hangs |-> FALSE, t |-> LineageAdded(lineage, p, c)])

\* p.Lineage.remove(c): c is detached and keeps its own children
LineageRemove ==
    \E p \in Controls, c \in Controls :
        /\ lineage[c].parent = p
        /\ LineageDid("remove", <<p, c>>, lineage[c].children # << >>,
                      [hangs |-> FALSE, t |-> LineageRemoved(lineage, p, c)])

\* p.remove(c), which is p.Lineage.removeChild(c)
LineageRemoveChild ==
    \E p \in Controls, c \in Controls :
        /\ c # p
        /\ LineageDid("removeChild", <<p, c>>, lineage[c].children # << >>,
                      LineageChildRemoved(lineage, p, c))

\* c.destroy(), which is c.Lineage.destroy()
LineageDestroy ==
    \E c \in Controls :
        /\ ~hung
        /\ LineageDid("destroy", <<c>>, lineage[c].children # << >>,
                      LineageDestroyed(lineage, c))

NextLineage ==
    \/ LineageAdd
    \/ LineageRemove
    \/ LineageRemoveChild
    \/ LineageDestroy

SpecLineage == InitLineage /\ [][NextLineage]_vars

(***************************************************************************)
(* C40                                                                     *)
(***************************************************************************)
\* the control destroy() was called on had d among its children
FormerChild(d) ==
    \E i \in 1..Len(lineage[op'.s[1]].children) : lineage[op'.s[1]].children[i] = d

\* C40: destroy() on a control that has children terminates, and afterwards
\* the control has no children and every former child has a null parent
C40_DestroyDetachesChildren ==
    [][(op'.name = "destroy" /\ op'.flag)
           => /\ ~hung'
              /\ lineage'[op'.s[1]].children = << >>
              /\ \A d \in Controls : FormerChild(d) => lineage'[d].parent = NoControl]_vars

\* destroy() on a control without children returns and leaves the tree as
\* it was
DestroyOfLeafReturns ==
    [][(op'.name = "destroy" /\ ~op'.flag) => (~hung' /\ lineage' = lineage)]_vars

\* removeChild of a child without children returns and detaches the child
RemoveChildOfLeafDetaches ==
    [][(op'.name = "removeChild" /\ ~op'.flag /\ lineage[op'.s[2]].parent = op'.s[1])
           => /\ ~hung'
              /\ lineage'[op'.s[2]].parent = NoControl
              /\ lineage'[op'.s[1]].children = Without(lineage[op'.s[1]].children, op'.s[2])]_vars

=============================================================================
